---------------------------- MODULE Spec2Model ----------------------------
(***************************************************************************)
(* dwmbar: a status bar for dwm.  One thread per configured module polls   *)
(* a data source and overwrites its output string; the main thread waits   *)
(* on a common condition variable, joins the output strings and stores the *)
(* result as the name of the root window.                                  *)
(*                                                                         *)
(* A C++ string is a sequence of characters (one-character strings; an     *)
(* icon glyph is one character).  Module names and the internal/external   *)
(* keyword are only ever compared for equality and are kept atomic.        *)
(***************************************************************************)
EXTENDS Integers, Sequences, FiniteSets, TLC

(***************************************************************************)
(* Program and platform constants.                                         *)
(***************************************************************************)
\* dwmbar.cpp:59, the size of the vector of signal condition variables
sigRTNUM == 30
\* <csignal> on Linux/glibc: the real-time signals are 34..64
SIGRTMIN == 34
SIGRTMAX == 64

(***************************************************************************)
(* Bounds of the exploration.                                              *)
(***************************************************************************)
\* seconds of wall-clock time explored
MaxTime == 3
\* real-time signals delivered to one module
MaxSignals == 1
\* lines that pacman -Qu prints
MaxPackages == 10

(***************************************************************************)
(* Characters and numbers.                                                 *)
(***************************************************************************)
Digits == <<"0", "1", "2", "3", "4", "5", "6", "7", "8", "9">>

IsDigit(c) == \E i \in 1..10 : Digits[i] = c

DigitVal(c) == (CHOOSE i \in 1..10 : Digits[i] = c) - 1

IsSpace(c) == c \in {" ", "\t", "\n"}

RECURSIVE to_string(_)
\* std::to_string of a non-negative integer
to_string(n) == IF n < 10 THEN <<Digits[n + 1]>>
                ELSE to_string(n \div 10) \o <<Digits[(n % 10) + 1]>>

RECURSIVE SkipSpace(_)
SkipSpace(s) == IF s # <<>> /\ IsSpace(Head(s)) THEN SkipSpace(Tail(s)) ELSE s

RECURSIVE DigitPrefix(_)
\* the longest prefix of s made of decimal digits
DigitPrefix(s) == IF s # <<>> /\ IsDigit(Head(s))
                  THEN <<Head(s)>> \o DigitPrefix(Tail(s))
                  ELSE <<>>

RECURSIVE DigitsValue(_, _)
DigitsValue(s, acc) == IF s = <<>> THEN acc
                       ELSE DigitsValue(Tail(s), acc * 10 + DigitVal(Head(s)))

\* std::stoi / std::stof on an integer text: leading white space is skipped,
\* an optional sign is read, then as many digits as there are; trailing
\* characters are ignored.  With no digit at all the call throws
\* std::invalid_argument (ok = FALSE).
stoi(s) ==
    LET t    == SkipSpace(s)
        neg  == t # <<>> /\ Head(t) = "-"
        u    == IF t # <<>> /\ Head(t) \in {"-", "+"} THEN Tail(t) ELSE t
        d    == DigitPrefix(u)
    IN  IF d = <<>> THEN [ok |-> FALSE, val |-> 0]
        ELSE [ok |-> TRUE, val |-> IF neg THEN 0 - DigitsValue(d, 0) ELSE DigitsValue(d, 0)]

RECURSIVE TokenOf(_)
\* the characters of s up to the first white space
TokenOf(s) == IF s = <<>> \/ IsSpace(Head(s)) THEN <<>>
              ELSE <<Head(s)>> \o TokenOf(Tail(s))

\* istream >> string: skip white space, read one token; rest is what remains.
\* When no token is left the extraction fails and the target keeps its value.
Extract(s) ==
    LET t   == SkipSpace(s)
        tok == TokenOf(t)
    IN  [ok |-> tok # <<>>, tok |-> tok, rest |-> SubSeq(t, Len(tok) + 1, Len(t))]


\* operator<< of a float with std::fixed and setprecision(1), for the
\* non-negative quotient num/den (den > 0): the nearest tenth
Fixed1(num, den) ==
    LET tenths == (2 * 10 * num + den) \div (2 * den)
    IN  to_string(tenths \div 10) \o <<".">> \o to_string(tenths % 10)

\* operator<< of a float with std::fixed and setprecision(0)
Fixed0(num, den) == to_string((2 * num + den) \div (2 * den))

\* string::compare(0, n, lit) == 0: the first n characters (fewer when the
\* string is shorter) equal lit
StartsWith(s, n, lit) ==
    SubSeq(s, 1, IF Len(s) < n THEN Len(s) ELSE n) = lit

(***************************************************************************)
(* What a file read can give: NoFile when the file cannot be opened, else  *)
(* its lines.                                                              *)
(***************************************************************************)
NoFile == [open |-> FALSE, lines |-> <<>>]

File(lines) == [open |-> TRUE, lines |-> lines]

\* fstream::open + getline of the first line: "" when the file is not open
\* or is empty
FirstLine(file) == IF ~file.open \/ file.lines = <<>> THEN <<>> ELSE file.lines[1]

(***************************************************************************)
(* One poll of each module: the text the poll is about to store in the     *)
(* output string.  [throws |-> TRUE] is an exception that leaves           *)
(* runModule_; [write |-> FALSE] is a poll that assigns nothing.           *)
(***************************************************************************)
Stored(text) == [throws |-> FALSE, write |-> TRUE, text |-> text]

Thrown == [throws |-> TRUE, write |-> FALSE, text |-> <<>>]

NotStored == [throws |-> FALSE, write |-> FALSE, text |-> <<>>]

\* ModuleDate::runModule_: put_time of the current time with the dateFormat of
\* config.hpp, "%a %b %e %H:%M %Z": the text changes with the minute
DateText(t) == <<"T">> \o to_string(t \div 60)

ModuleDate_run(t) == Stored(DateText(t))

MemFreeLabel == <<"M", "e", "m", "F", "r", "e", "e", ":">>

RECURSIVE ScanMemLine_last(_)
\* ScanMemLine without the break: the loop runs to the end of the file and
\* memLine is the last line that starts with "MemFree:"
ScanMemLine_last(lines) ==
    IF lines = <<>> THEN <<>>
    ELSE IF ScanMemLine_last(Tail(lines)) # <<>> THEN ScanMemLine_last(Tail(lines))
    ELSE IF StartsWith(Head(lines), 8, MemFreeLabel) THEN Head(lines)
    ELSE <<>>

RECURSIVE ScanMemLine(_)
\* the while (getline) loop of ModuleRAM::runModule_: memLine after the loop.
\* The loop stops at the first line that starts with "MemFree:"; the getline
\* that fails at the end of the file leaves the string empty.
ScanMemLine(lines) ==
    IF lines = <<>> THEN <<>>
    ELSE IF StartsWith(Head(lines), 8, MemFreeLabel) THEN Head(lines)
    ELSE ScanMemLine(Tail(lines))

\* the two extractions memLineStream >> freeMemStr: a failed extraction leaves
\* the string as it was
RamFreeMemStr(memLine) ==
    LET e1 == Extract(memLine)
        s1 == IF e1.ok THEN e1.tok ELSE <<>>
        e2 == Extract(e1.rest)
    IN  IF e2.ok THEN e2.tok ELSE s1

RamGlyph == "\\uf85a"

\* ModuleRAM::runModule_
ModuleRAM_run(meminfo) ==
    LET memLine == ScanMemLine(IF meminfo.open THEN meminfo.lines ELSE <<>>)
        kb      == stoi(RamFreeMemStr(memLine))
    IN  IF ~kb.ok THEN Thrown
        ELSE Stored(<<RamGlyph, " ">> \o Fixed1(kb.val, 1048576) \o <<"G", "i">>)


Charging == <<"C", "h", "a", "r", "g", "i", "n", "g">>

Discharging == <<"D", "i", "s", "c", "h", "a", "r", "g", "i", "n", "g">>

Full == <<"F", "u", "l", "l">>

\* BatteryGlyph with the test of "Discharging" at full capacity left out
BatteryGlyph_noDischargingCase(batStatus, batCapacity) ==
    IF batCapacity >= 100 /\ batStatus # Charging THEN "\\uf583"
    ELSE IF batStatus = Charging
    THEN CASE batCapacity < 5   -> "\\uf58d"
           [] batCapacity < 20  -> "\\uf585"
           [] batCapacity < 30  -> "\\uf586"
           [] batCapacity < 40  -> "\\uf587"
           [] batCapacity < 60  -> "\\uf588"
           [] batCapacity < 80  -> "\\uf589"
           [] batCapacity < 90  -> "\\uf58a"
           [] batCapacity < 100 -> "\\uf578"
           [] OTHER             -> ""
    ELSE CASE batCapacity < 5   -> "\\uf58d"
           [] batCapacity < 10  -> "\\uf579"
           [] batCapacity < 20  -> "\\uf57a"
           [] batCapacity < 30  -> "\\uf57b"
           [] batCapacity < 40  -> "\\uf57c"
           [] batCapacity < 50  -> "\\uf57d"
           [] batCapacity < 60  -> "\\uf57e"
           [] batCapacity < 70  -> "\\uf57f"
           [] batCapacity < 80  -> "\\uf580"
           [] batCapacity < 90  -> "\\uf581"
           [] OTHER             -> "\\uf578"

\* the glyph chosen by ModuleBattery::runModule_, "" when no branch assigns
BatteryGlyph(batStatus, batCapacity) ==
    IF batStatus = Charging
    THEN CASE batCapacity < 5   -> "\\uf58d"
           [] batCapacity < 20  -> "\\uf585"
           [] batCapacity < 30  -> "\\uf586"
           [] batCapacity < 40  -> "\\uf587"
           [] batCapacity < 60  -> "\\uf588"
           [] batCapacity < 80  -> "\\uf589"
           [] batCapacity < 90  -> "\\uf58a"
           [] batCapacity < 100 -> "\\uf578"
           [] OTHER             -> ""
    ELSE CASE batCapacity < 5   -> "\\uf58d"
           [] batCapacity < 10  -> "\\uf579"
           [] batCapacity < 20  -> "\\uf57a"
           [] batCapacity < 30  -> "\\uf57b"
           [] batCapacity < 40  -> "\\uf57c"
           [] batCapacity < 50  -> "\\uf57d"
           [] batCapacity < 60  -> "\\uf57e"
           [] batCapacity < 70  -> "\\uf57f"
           [] batCapacity < 80  -> "\\uf580"
           [] batCapacity < 90  -> "\\uf581"
           [] batCapacity < 100 -> "\\uf578"
           [] OTHER             -> IF batStatus = Discharging THEN "\\uf578"
                                   ELSE "\\uf583"

\* ModuleBattery::runModule_: an unreadable file leaves its string empty, an
\* empty capacity string counts as 0.0
ModuleBattery_run(statusFile, capacityFile) ==
    LET batStatus      == FirstLine(statusFile)
        batCapacityStr == FirstLine(capacityFile)
        cap            == IF batCapacityStr = <<>> THEN [ok |-> TRUE, val |-> 0]
                          ELSE stoi(batCapacityStr)
        glyph          == BatteryGlyph(batStatus, cap.val)
    IN  IF ~cap.ok THEN Thrown
        ELSE IF glyph = "" THEN NotStored
        ELSE Stored(batCapacityStr \o <<"%", " ", glyph>>)

\* the / of two ints, den > 0: the quotient is cut towards zero
IntDiv(num, den) == IF num < 0 THEN 0 - ((0 - num) \div den) ELSE num \div den

RECURSIVE Fields(_)
\* the white-space separated fields of a line
Fields(line) ==
    LET e == Extract(line)
    IN  IF ~e.ok THEN <<>> ELSE <<e.tok>> \o Fields(e.rest)

RECURSIVE SumFields(_, _, _)
\* the sum of the values of the fields f[i] with i in idx, from position i on
SumFields(f, i, idx) ==
    IF i > Len(f) THEN 0
    ELSE (IF i \in idx THEN stoi(f[i]).val ELSE 0) + SumFields(f, i + 1, idx)

\* ThermGlyph with the first limit included in the lowest band
ThermGlyph_inclusive(cpuTemp) ==
    IF cpuTemp <= 35 THEN "\\ue20c"
    ELSE IF cpuTemp < 80 THEN "\\ue20a"
    ELSE "\\ue20b"

\* the temperature glyph of ModuleCPU::runModule_
ThermGlyph(cpuTemp) ==
    IF cpuTemp < 35 THEN "\\ue20c"
    ELSE IF cpuTemp < 80 THEN "\\ue20a"
    ELSE "\\ue20b"

Abs(n) == IF n < 0 THEN 0 - n ELSE n

\* percentLoad = (1.0 - di/dt)*100 as operator<< prints it with one decimal.
\* The operands are floats: a zero dt gives a quotient that is no number
\* (0/0) or is infinite.
PercentText(di, dt) ==
    IF dt = 0 THEN (IF di = 0 THEN <<"n", "a", "n">>
                    ELSE IF di > 0 THEN <<"-", "i", "n", "f">> ELSE <<"i", "n", "f">>)
    ELSE (IF (dt - di) * dt < 0 THEN <<"-">> ELSE <<>>)
             \o Fixed1(100 * Abs(dt - di), Abs(dt))

\* CpuLoad with deltas taken against zero, as if previous*_ were never kept
CpuLoad_noPrevious(loadLine, prev) ==
    LET f     == Fields(loadLine)
        total == SumFields(f, 2, 2..Len(f))
        idle  == SumFields(f, 2, {5, 6})
    IN  IF loadLine = <<>> THEN [text |-> <<"0", ".", "0">>, prev |-> prev]
        ELSE [text |-> PercentText(idle, total),
              prev |-> [idle |-> idle, total |-> total]]

\* CpuLoad with the previous*_ members set to zero when the line cannot be
\* read
CpuLoad_forgetsPrevious(loadLine, prev) ==
    LET f     == Fields(loadLine)
        total == SumFields(f, 2, 2..Len(f))
        idle  == SumFields(f, 2, {5, 6})
        dt    == total - prev.total
        di    == idle - prev.idle
    IN  IF loadLine = <<>> THEN [text |-> <<"0", ".", "0">>,
                                 prev |-> [idle |-> 0, total |-> 0]]
        ELSE [text |-> PercentText(di, dt),
              prev |-> [idle |-> idle, total |-> total]]

\* the load part of ModuleCPU::runModule_: percentLoad with one decimal and
\* the new previous*_ members.  f[1] is the line name, f[5] and f[6] are the
\* 4th and 5th numbers.
CpuLoad(loadLine, prev) ==
    LET f     == Fields(loadLine)
        total == SumFields(f, 2, 2..Len(f))
        idle  == SumFields(f, 2, {5, 6})
        dt    == total - prev.total
        di    == idle - prev.idle
    IN  IF loadLine = <<>> THEN [text |-> <<"0", ".", "0">>, prev |-> prev]
        ELSE [text |-> PercentText(di, dt),
              prev |-> [idle |-> idle, total |-> total]]

\* ModuleCPU::runModule_
ModuleCPU_run(tempFile, statFile, prev) ==
    LET tempStatus == FirstLine(tempFile)
        temp       == IF tempStatus = <<>> THEN [ok |-> TRUE, val |-> 0]
                      ELSE stoi(tempStatus)
        cpuTemp    == IntDiv(temp.val, 1000)
        load       == CpuLoad(FirstLine(statFile), prev)
    IN  IF ~temp.ok THEN Thrown
        ELSE Stored(<<"\\ufb19", " ">> \o load.text \o <<"%", " ", ThermGlyph(cpuTemp), " ">>
                    \o to_string(cpuTemp) \o <<"\\u00b0", "C">>)

\* DiskEntry with nothing appended for a file system whose statvfs fails
DiskEntry_omitsFailed(output, iconInd, st) ==
    IF st.test # 0 THEN output
    ELSE output \o (IF iconInd = 0 THEN <<"\\uf015", " ">> ELSE <<" ", " ", "\\uf0a0", " ">>)
                \o Fixed0(st.f_bavail * (st.f_bsize \div 1024), 1048576)
                \o <<"G", "i">>

\* DiskEntry with a local output string that starts empty in every iteration
DiskEntry_onlyLast(output, iconInd, st) ==
    (IF iconInd = 0 THEN <<"\\uf015", " ">> ELSE <<" ", " ", "\\uf0a0", " ">>)
        \o Fixed0(IF st.test = 0 THEN st.f_bavail * (st.f_bsize \div 1024) ELSE 0, 1048576)
        \o <<"G", "i">>

\* one iteration of the loop of ModuleDisk::runModule_: the local output
\* string after file system number iconInd (from 0).  st is what statvfs
\* gives; the free space f_bavail * f_bsize / 1073741824 is computed in units
\* of 1024 bytes (f_bsize is a multiple of 1024).
DiskEntry(output, iconInd, st) ==
    output \o (IF iconInd = 0 THEN <<"\\uf015", " ">> ELSE <<" ", " ", "\\uf0a0", " ">>)
           \o Fixed0(IF st.test = 0 THEN st.f_bavail * (st.f_bsize \div 1024) ELSE 0, 1048576)
           \o <<"G", "i">>

\* ModuleExtern::lengthLimit_
lengthLimit_ == 500

\* ModuleExtern_run without the cut
ModuleExtern_run_noLimit(cmdOutput) == Stored(cmdOutput)

\* ModuleExtern::runModule_: the captured output of the command, cut to
\* lengthLimit_ characters
ModuleExtern_run(cmdOutput) ==
    Stored(SubSeq(cmdOutput, 1, IF Len(cmdOutput) < lengthLimit_ THEN Len(cmdOutput)
                                ELSE lengthLimit_))

(***************************************************************************)
(* The pacupdate script.  A listing is what pacman -Qu prints: a sequence  *)
(* of lines, each a sequence of words.                                     *)
(***************************************************************************)
\* grep -v '\[ignored\]': the lines that do not hold the word
grep_v(lines) ==
    SelectSeq(lines, LAMBDA l : \A i \in 1..Len(l) : l[i] # "[ignored]")

\* wc -l: the number of lines, as text
wc_l(lines) == to_string(Len(lines))

RECURSIVE sed_unanchored(_)
\* sed 's/0//', the pattern without its anchors: the first "0" of the line
\* is taken out
sed_unanchored(text) ==
    IF text = <<>> THEN <<>>
    ELSE IF Head(text) = "0" THEN Tail(text)
    ELSE <<Head(text)>> \o sed_unanchored(Tail(text))

\* sed 's/^0$//': a line that is "0" becomes empty, any other line stays
sed(text) == IF text = <<"0">> THEN <<>> ELSE text

\* the script: what it writes to standard output
pacupdate(listing) ==
    LET numPacs == sed(wc_l(grep_v(listing)))
    IN  IF numPacs # <<>> THEN numPacs \o <<" ", "\\uf487">> ELSE <<>>


(***************************************************************************)
(* The state.                                                              *)
(***************************************************************************)
VARIABLES
    topModuleList,        \* config.hpp: descriptors of the top bar
    bottomModuleList,     \* config.hpp: descriptors of the bottom bar
    twoBars,              \* config.hpp
    process,              \* "running"; "exited": main called exit;
                          \* "terminate_main", "terminate": an exception left
                          \* main or a thread function (std::terminate);
                          \* "fault_main", "fault_wait", "fault_notify": an
                          \* invalid memory access in main, in a thread's
                          \* wait, in processSignal
    exitCode,             \* the argument of exit, -1 before any exit
    mainPc,               \* where main() is
    moduleID,             \* main's index into the list it is walking
    topModuleOutputs,     \* the output strings of the top bar
    bottomModuleOutputs,  \* the output strings of the bottom bar
    moduleThreads,        \* the functors handed to the threads started so far
    pc,                   \* where each thread is in Module::operator()
    sleepLeft,            \* seconds left of each thread's sleep_for
    pending,              \* the text each runModule_ is storing (Disk: its
                          \* local output string so far)
    fsInd,                \* ModuleDisk: index of the file system in work
    previousLoad,         \* ModuleCPU: previousIdleLoad_, previousTotalLoad_
    barText,              \* main's barText
    barTextBottom,        \* main's barTextBottom
    rootName,             \* the name of the root window
    now,                  \* wall-clock seconds since the start
    sigInd,               \* processSignal: the index it last computed
    polls,                \* history: runModule_ calls of each thread
    woken,                \* history: wake-ups of each thread by its signal
                          \*          condition variable
    slept,                \* history: seconds each thread has spent in sleep_for
    delivered,            \* history: signals handled on each thread's offset
    notified,             \* history: notify_one calls of each thread on commonCond
    polled,               \* history: the data the runModule_ in progress read
    readTop,              \* history: the top output strings as main last read them
    readBottom,           \* history: the bottom output strings as main last read them
    display               \* X: connections open, and how the last XOpenDisplay went

vars == <<topModuleList, bottomModuleList, twoBars, process, exitCode, mainPc,
          moduleID, topModuleOutputs, bottomModuleOutputs, moduleThreads, pc,
          sleepLeft, pending, fsInd, previousLoad, barText, barTextBottom,
          rootName, now, sigInd, polls, woken, slept, delivered, notified, polled,
          readTop, readBottom, display>>

configVars == <<topModuleList, bottomModuleList, twoBars>>

\* what main reads and what it does to the X server
renderVars == <<readTop, readBottom, display>>

mainVars == <<mainPc, moduleID, barText, barTextBottom, rootName, renderVars>>

slotVars == <<topModuleOutputs, bottomModuleOutputs>>

threadVars == <<moduleThreads, pc, sleepLeft, pending, fsInd, previousLoad>>

historyVars == <<polls, woken, slept, delivered, notified>>

\* polled of a thread that is not between its read and its assignment
NoData == [none |-> TRUE]

Threads == 1..Len(moduleThreads)

(***************************************************************************)
(* config.hpp                                                              *)
(***************************************************************************)
topDelimiter == <<" ">>

bottomDelimiter == <<" ", "|", " ">>

botTopDelimiter == <<";">>

fsNames == <<"/home", "/home/tonyg/extra">>

\* the names main() dispatches on
InternalNames == {"ModuleDate", "ModuleBattery", "ModuleCPU", "ModuleRAM", "ModuleDisk"}

\* a four-element descriptor with a non-negative interval and signal
Desc(name, kind, interval, rtSig) == <<name, kind, to_string(interval), to_string(rtSig)>>

(***************************************************************************)
(* main(): one descriptor of a module list (dwmbar.cpp:121-162 for the top *)
(* bar, 170-211 for the bottom bar, the same text).  The result says what  *)
(* main does with the descriptor tb.                                       *)
(***************************************************************************)
Exit(code) == [act |-> "exit", code |-> code, kind |-> "", interval |-> 0, rtSig |-> 0]

Throw == [act |-> "throw", code |-> -1, kind |-> "", interval |-> 0, rtSig |-> 0]

Start(kind, interval, rtSig) ==
    [act |-> "start", code |-> -1, kind |-> kind, interval |-> interval, rtSig |-> rtSig]

InternalDispatch(name, interval, rtSig) ==
    IF name \in InternalNames THEN Start(name, interval, rtSig) ELSE Exit(4)

\* CheckSignal with a test of the kind for "internal" as well: any other kind
\* is refused like an unknown name
CheckSignal_internalOnly(tb, interval) ==
    LET rtSig == stoi(tb[4])
    IN  IF ~rtSig.ok THEN Throw
        ELSE IF rtSig.val < 0 THEN Exit(3)
        ELSE IF tb[2] = "external" THEN Start("ModuleExtern", interval, rtSig.val)
        ELSE IF tb[2] = "internal" THEN InternalDispatch(tb[1], interval, rtSig.val)
        ELSE Exit(4)

CheckSignal(tb, interval) ==
    LET rtSig == stoi(tb[4])
    IN  IF ~rtSig.ok THEN Throw
        ELSE IF rtSig.val < 0 THEN Exit(3)
        ELSE IF tb[2] = "external" THEN Start("ModuleExtern", interval, rtSig.val)
        ELSE InternalDispatch(tb[1], interval, rtSig.val)

CheckInterval(tb) ==
    LET interval == stoi(tb[3])
    IN  IF ~interval.ok THEN Throw
        ELSE IF interval.val < 0 THEN Exit(2)
        ELSE CheckSignal(tb, interval.val)

\* CheckDescriptor with the signal tested before the interval
CheckDescriptor_signalFirst(tb) ==
    IF Len(tb) # 4
    THEN [act |-> IF Len(tb) = 0 THEN "exit_after_bad_read" ELSE "exit", code |-> 1,
          kind |-> "", interval |-> 0, rtSig |-> 0]
    ELSE LET interval == stoi(tb[3])
             rtSig    == stoi(tb[4])
         IN  IF ~interval.ok \/ ~rtSig.ok THEN Throw
             ELSE IF rtSig.val < 0 THEN Exit(3)
             ELSE IF interval.val < 0 THEN Exit(2)
             ELSE IF tb[2] = "external" THEN Start("ModuleExtern", interval.val, rtSig.val)
             ELSE InternalDispatch(tb[1], interval.val, rtSig.val)

\* the error message of the size check reads tb[0]: with an empty descriptor
\* that is a read through the null data pointer of the vector
CheckDescriptor(tb) ==
    IF Len(tb) # 4
    THEN [act |-> IF Len(tb) = 0 THEN "exit_after_bad_read" ELSE "exit", code |-> 1,
          kind |-> "", interval |-> 0, rtSig |-> 0]
    ELSE CheckInterval(tb)


(***************************************************************************)
(* main(): start-up                                                        *)
(***************************************************************************)
Running == process = "running"

\* what the process becomes when main leaves the start-up loop abnormally
StartOutcomes(act) ==
    CASE act = "exit"                -> {"exited"}
      [] act = "throw"               -> {"terminate_main"}
      [] act = "exit_after_bad_read" -> {"exited", "fault_main"}

\* ModuleFunctor with the address of the first output string for every module
ModuleFunctor_firstSlot(r, tb, bar) ==
    [kind |-> r.kind, refreshInterval_ |-> r.interval, bar |-> bar,
     outString_ |-> 1, signalCondition_ |-> r.rtSig, command |-> tb[1]]

\* the functor main constructs for a descriptor
ModuleFunctor(r, tb, bar) ==
    [kind |-> r.kind, refreshInterval_ |-> r.interval, bar |-> bar,
     outString_ |-> moduleID + 1, signalCondition_ |-> r.rtSig, command |-> tb[1]]

\* one iteration of a for loop over a module list
StartModule(list, bar) ==
    /\ Running
    /\ mainPc = bar
    /\ moduleID < Len(list)
    /\ LET tb == list[moduleID + 1]
           r  == CheckDescriptor(tb)
       IN  IF r.act = "start"
           THEN /\ moduleThreads' = Append(moduleThreads, ModuleFunctor(r, tb, bar))
                /\ pc' = Append(pc, "call")
                /\ sleepLeft' = Append(sleepLeft, 0)
                /\ pending' = Append(pending, NotStored)
                /\ fsInd' = Append(fsInd, 0)
                /\ previousLoad' = Append(previousLoad, [idle |-> 0, total |-> 0])
                /\ polls' = Append(polls, 0)
                /\ woken' = Append(woken, 0)
                /\ slept' = Append(slept, 0)
                /\ delivered' = Append(delivered, 0)
                /\ notified' = Append(notified, 0)
                /\ polled' = Append(polled, NoData)
                /\ moduleID' = moduleID + 1
                /\ UNCHANGED <<process, exitCode>>
           ELSE /\ process' \in StartOutcomes(r.act)
                /\ exitCode' = IF process' = "exited" THEN r.code ELSE -1
                /\ UNCHANGED <<threadVars, historyVars, polled, moduleID>>
    /\ UNCHANGED <<configVars, mainPc, slotVars, barText, barTextBottom, rootName,
                   renderVars, now, sigInd>>

\* dwmbar.cpp:120-164
StartTop == StartModule(topModuleList, "top")

\* dwmbar.cpp:169-213
StartBottom == StartModule(bottomModuleList, "bottom")

\* TopDone without the test of twoBars
TopDone_ignoresTwoBars ==
    /\ Running
    /\ mainPc = "top"
    /\ moduleID = Len(topModuleList)
    /\ bottomModuleOutputs' = [i \in 1..Len(bottomModuleList) |-> <<>>]
    /\ moduleID' = 0
    /\ mainPc' = "bottom"
    /\ UNCHANGED <<configVars, process, exitCode, topModuleOutputs, threadVars,
                   barText, barTextBottom, rootName, renderVars, now, sigInd,
                   historyVars, polled>>

\* dwmbar.cpp:165-168: after the top loop
TopDone ==
    /\ Running
    /\ mainPc = "top"
    /\ moduleID = Len(topModuleList)
    /\ IF twoBars
       THEN /\ bottomModuleOutputs' = [i \in 1..Len(bottomModuleList) |-> <<>>]
            /\ moduleID' = 0
            /\ mainPc' = "bottom"
       ELSE /\ mainPc' = "lock"
            /\ UNCHANGED <<bottomModuleOutputs, moduleID>>
    /\ UNCHANGED <<configVars, process, exitCode, topModuleOutputs, threadVars,
                   barText, barTextBottom, rootName, renderVars, now, sigInd,
                   historyVars, polled>>

\* dwmbar.cpp:213-217: after the bottom loop
BottomDone ==
    /\ Running
    /\ mainPc = "bottom"
    /\ moduleID = Len(bottomModuleList)
    /\ mainPc' = "lock"
    /\ UNCHANGED <<configVars, process, exitCode, moduleID, slotVars, threadVars,
                   barText, barTextBottom, rootName, renderVars, now, sigInd,
                   historyVars, polled>>


(***************************************************************************)
(* The data a poll can find.                                               *)
(***************************************************************************)
MemTotalLine == <<"M", "e", "m", "T", "o", "t", "a", "l", ":", " ">> \o to_string(8388608)
                    \o <<" ", "k", "B">>

MemFreeLine(kb) == MemFreeLabel \o <<" ", " ">> \o to_string(kb) \o <<" ", "k", "B">>

MemInfos == {NoFile, File(<<MemTotalLine>>), File(<<MemTotalLine, MemFreeLine(2097152)>>)}

MemAvailableLine == <<"M", "e", "m", "A", "v", "a", "i", "l", "a", "b", "l", "e", ":", " ">>
                        \o to_string(5242880) \o <<" ", "k", "B">>

\* /proc/meminfo with lines after the MemFree line, one of them a second
\* MemFree line, and with an amount that is not a whole number of Gi
MemInfosMore ==
    {File(<<MemTotalLine, MemFreeLine(3670016), MemAvailableLine, MemFreeLine(1048576)>>),
     File(<<MemTotalLine, MemFreeLine(1200000), MemAvailableLine>>)}

StatusFiles == {NoFile, File(<<Charging>>), File(<<Discharging>>), File(<<Full>>)}

\* the capacity values on both sides of every limit of the glyph tables
Capacities == {4, 5, 9, 10, 15, 19, 20, 29, 30, 39, 40, 49, 50, 59, 60, 69, 70, 79, 80,
               89, 90, 99, 100}

CapacityFiles == {NoFile} \cup {File(<<to_string(c)>>) : c \in Capacities}

\* the temperature in thousandths of a degree: below zero, and on both sides
\* of the limits of the glyphs
MilliDegrees == {-500, 34999, 35000, 79999, 80000}

TempFiles == {NoFile, File(<<to_string(42000)>>)}

TempFilesMore ==
    {File(<<IF t < 0 THEN <<"-">> \o to_string(0 - t) ELSE to_string(t)>>) :
        t \in MilliDegrees}

\* the first line of /proc/stat: the label and the cumulative tick counts
StatLine(user, nice, system, idle, iowait, irq, softirq) ==
    <<"c", "p", "u", " ", " ">> \o to_string(user) \o <<" ">> \o to_string(nice)
        \o <<" ">> \o to_string(system) \o <<" ">> \o to_string(idle)
        \o <<" ">> \o to_string(iowait) \o <<" ">> \o to_string(irq)
        \o <<" ">> \o to_string(softirq)

\* two readings of the counters: idle 100 of total 1000, then idle 150 of
\* total 1200
StatFiles == {NoFile,
              File(<<StatLine(700, 50, 100, 80, 20, 30, 20)>>),
              File(<<StatLine(820, 60, 120, 120, 30, 30, 20)>>)}

\* what statvfs gives for a file system: test is its return value
StatVfs == {[test |-> -1, f_bavail |-> 0, f_bsize |-> 0],
            [test |-> 0, f_bavail |-> 524288, f_bsize |-> 4096]}

\* a text of n characters, the digits in turn from the digit d on
TextOf(n, d) == [i \in 1..n |-> Digits[((i + d) % 10) + 1]]

\* what an external command prints: "dmesg" prints texts just below, at and
\* above lengthLimit_, every other command nothing or a short text
CommandOutputs(command) ==
    IF command = "dmesg"
    THEN {TextOf(lengthLimit_ - 1, 0), TextOf(lengthLimit_, 1), TextOf(lengthLimit_ + 1, 2)}
    ELSE {<<>>, <<"7">>}

PlainLine == <<"linux", "6.1.1-1", "->", "6.1.2-1">>

IgnoredLine == <<"mesa", "22.3.1-1", "->", "22.3.2-1", "[ignored]">>

\* listings of 0 to MaxPackages lines; the ignored lines are none, the first,
\* the last of a full listing, or all
PacmanListings ==
    {[i \in 1..n |-> IF i \in ign THEN IgnoredLine ELSE PlainLine] :
        n \in 0..MaxPackages, ign \in {{}, {1}, {MaxPackages}, 1..MaxPackages}}

\* what a run of an external command gives: its standard output and, for
\* the pacupdate script, the listing it worked on
CommandRuns(command) ==
    IF command = "~/.scripts/pacupdate"
    THEN {[out |-> pacupdate(l), listing |-> l] : l \in PacmanListings}
    ELSE {[out |-> o] : o \in CommandOutputs(command)}

PollInputs(functor) ==
    LET kind == functor.kind
    IN
    CASE kind = "ModuleDate"    -> {[t |-> now]}
      [] kind = "ModuleRAM"     -> {[meminfo |-> m] : m \in MemInfos}
      [] kind = "ModuleBattery" -> {[status |-> f, capacity |-> c] :
                                        f \in StatusFiles, c \in CapacityFiles}
      [] kind = "ModuleCPU"     -> {[temp |-> t, stat |-> l] :
                                        t \in TempFiles, l \in StatFiles}
      [] kind = "ModuleDisk"    -> {[statvfs |-> b] : b \in StatVfs}
      [] kind = "ModuleExtern"  -> CommandRuns(functor.command)

\* the same with the further readings of the memory and of the temperature
Readings(functor) ==
    LET kind == functor.kind
    IN
    CASE kind = "ModuleRAM" -> {[meminfo |-> m] : m \in MemInfos \cup MemInfosMore}
      [] kind = "ModuleCPU" -> {[temp |-> t, stat |-> l] :
                                    t \in TempFiles \cup TempFilesMore, l \in StatFiles}
      [] OTHER              -> PollInputs(functor)

(***************************************************************************)
(* Module::operator() and runModule_                                       *)
(***************************************************************************)
\* the text runModule_ of thread w computes from the data inp
RunModule(w, inp) ==
    LET kind == moduleThreads[w].kind
    IN  CASE kind = "ModuleDate"    -> ModuleDate_run(inp.t)
          [] kind = "ModuleRAM"     -> ModuleRAM_run(inp.meminfo)
          [] kind = "ModuleBattery" -> ModuleBattery_run(inp.status, inp.capacity)
          [] kind = "ModuleCPU"     -> ModuleCPU_run(inp.temp, inp.stat, previousLoad[w])
          [] kind = "ModuleDisk"    -> Stored(DiskEntry(pending[w].text, fsInd[w], inp.statvfs))
          [] kind = "ModuleExtern"  -> ModuleExtern_run(inp.out)

\* every runModule_ locks a mutex that is a local variable of the call; main
\* locks its own mtx
RunMutex(w) == [site |-> "runModule_", owner |-> w]

MainMutex == [site |-> "main", owner |-> 0]

HeldMutexes ==
    {RunMutex(w) : w \in {v \in Threads : pc[v] = "write"}}
        \cup (IF mainPc = "make" THEN {MainMutex} ELSE {})

\* AfterRun with the interval branch taken whatever the interval: a module
\* with interval 0 would sleep zero seconds and poll again
AfterRun_alwaysSleeps(interval) == "sleep"

\* where operator() goes when runModule_ returns: sleep_for, or wait on the
\* signal condition variable
AfterRun(interval) == IF interval # 0 THEN "sleep" ELSE "wait"

\* Waiters with a sleep that a signal interrupts, as in a wait_for on the
\* signal condition variable in place of sleep_for
Waiters_sleepersToo(ind) ==
    {w \in Threads : /\ pc[w] \in {"wait", "sleep"}
                     /\ moduleThreads[w].signalCondition_ = ind}

\* the threads blocked in signalCondition[ind].wait
Waiters(ind) ==
    {w \in Threads : pc[w] = "wait" /\ moduleThreads[w].signalCondition_ = ind}

\* Call with runModule_ under a lock that all the threads share, taken before
\* the data is read: no thread enters runModule_ while another is in it
Call_inTurn(w) ==
    /\ Running
    /\ pc[w] = "call"
    /\ \A v \in Threads \ {w} : pc[v] \notin {"poll", "write"}
    /\ pc' = [pc EXCEPT ![w] = "poll"]
    /\ polls' = [polls EXCEPT ![w] = @ + 1]
    /\ fsInd' = [fsInd EXCEPT ![w] = 0]
    /\ pending' = [pending EXCEPT ![w] = NotStored]
    /\ UNCHANGED <<configVars, process, exitCode, mainVars, slotVars, moduleThreads,
                   sleepLeft, previousLoad, now, sigInd, woken, slept, delivered,
                   notified, polled>>

\* operator() calls runModule_
Call(w) ==
    /\ Running
    /\ pc[w] = "call"
    /\ pc' = [pc EXCEPT ![w] = "poll"]
    /\ polls' = [polls EXCEPT ![w] = @ + 1]
    /\ fsInd' = [fsInd EXCEPT ![w] = 0]
    /\ pending' = [pending EXCEPT ![w] = NotStored]
    /\ UNCHANGED <<configVars, process, exitCode, mainVars, slotVars, moduleThreads,
                   sleepLeft, previousLoad, now, sigInd, woken, slept, delivered,
                   notified, polled>>

\* runModule_ reads its data, formats the text and locks its mutex; an
\* exception that leaves runModule_ leaves the thread function: std::terminate
GatherFrom(w, inputs) ==
    /\ Running
    /\ pc[w] = "poll"
    /\ RunMutex(w) \notin HeldMutexes
    /\ \E inp \in inputs :
         LET res == RunModule(w, inp)
         IN  IF res.throws
             THEN /\ process' = "terminate"
                  /\ UNCHANGED <<pc, pending, previousLoad, polled>>
             ELSE /\ pc' = [pc EXCEPT ![w] = "write"]
                  /\ polled' = [polled EXCEPT ![w] = inp]
                  /\ pending' = [pending EXCEPT ![w] = res]
                  /\ previousLoad' =
                        [previousLoad EXCEPT ![w] =
                            IF moduleThreads[w].kind = "ModuleCPU"
                            THEN CpuLoad(FirstLine(inp.stat), @).prev ELSE @]
                  /\ UNCHANGED process
    /\ UNCHANGED <<configVars, exitCode, mainVars, slotVars, moduleThreads, sleepLeft,
                   fsInd, now, sigInd, historyVars>>

Gather(w) == GatherFrom(w, PollInputs(moduleThreads[w]))

GatherReading(w) == GatherFrom(w, Readings(moduleThreads[w]))

\* the output string of thread w after its assignment
StoreOutput(outputs, w) ==
    IF pending[w].write
    THEN [outputs EXCEPT ![moduleThreads[w].outString_] = pending[w].text]
    ELSE outputs

\* runModule_ finishes the assignment, notifies the common condition variable
\* and unlocks; ModuleDisk goes on with its next file system, the others
\* return to operator()
Publish(w) ==
    /\ Running
    /\ pc[w] = "write"
    /\ IF moduleThreads[w].bar = "top"
       THEN /\ topModuleOutputs' = StoreOutput(topModuleOutputs, w)
            /\ UNCHANGED bottomModuleOutputs
       ELSE /\ bottomModuleOutputs' = StoreOutput(bottomModuleOutputs, w)
            /\ UNCHANGED topModuleOutputs
    /\ mainPc' = IF mainPc = "wait" THEN "make" ELSE mainPc
    /\ IF moduleThreads[w].kind = "ModuleDisk" /\ fsInd[w] + 1 < Len(fsNames)
       THEN /\ fsInd' = [fsInd EXCEPT ![w] = @ + 1]
            /\ pc' = [pc EXCEPT ![w] = "poll"]
            /\ UNCHANGED sleepLeft
       ELSE /\ pc' = [pc EXCEPT ![w] = AfterRun(moduleThreads[w].refreshInterval_)]
            /\ sleepLeft' = [sleepLeft EXCEPT ![w] = moduleThreads[w].refreshInterval_]
            /\ UNCHANGED fsInd
    /\ notified' = [notified EXCEPT ![w] = @ + 1]
    /\ polled' = [polled EXCEPT ![w] = NoData]
    /\ UNCHANGED <<configVars, process, exitCode, moduleID, barText, barTextBottom,
                   rootName, renderVars, moduleThreads, pending, previousLoad, now,
                   sigInd, polls, woken, slept, delivered>>

\* sleep_for returns
WakeUp(w) ==
    /\ Running
    /\ pc[w] = "sleep"
    /\ sleepLeft[w] = 0
    /\ pc' = [pc EXCEPT ![w] = "call"]
    /\ UNCHANGED <<configVars, process, exitCode, mainVars, slotVars, moduleThreads,
                   sleepLeft, pending, fsInd, previousLoad, now, sigInd, historyVars,
                   polled>>

\* a thread whose signalCondition_ points past the end of the vector waits on
\* memory that holds no condition variable: the wait may never return, return
\* at once, or fault
WaitOutOfRange(w) ==
    /\ Running
    /\ pc[w] = "wait"
    /\ moduleThreads[w].signalCondition_ >= sigRTNUM
    /\ polls[w] <= MaxSignals
    /\ \E returns \in BOOLEAN :
         IF returns
         THEN pc' = [pc EXCEPT ![w] = "call"] /\ UNCHANGED process
         ELSE process' = "fault_wait" /\ UNCHANGED pc
    /\ UNCHANGED <<configVars, exitCode, mainVars, slotVars, moduleThreads, sleepLeft,
                   pending, fsInd, previousLoad, now, sigInd, historyVars, polled>>

\* one second passes
Tick ==
    /\ Running
    /\ now < MaxTime
    /\ now' = now + 1
    /\ sleepLeft' = [w \in Threads |->
                        IF pc[w] = "sleep" /\ sleepLeft[w] > 0 THEN sleepLeft[w] - 1
                        ELSE sleepLeft[w]]
    /\ slept' = [w \in Threads |->
                    IF pc[w] = "sleep" /\ sleepLeft[w] > 0 THEN slept[w] + 1
                    ELSE slept[w]]
    /\ UNCHANGED <<configVars, process, exitCode, mainVars, slotVars, moduleThreads, pc,
                   pending, fsInd, previousLoad, sigInd, polls, woken, delivered,
                   notified, polled>>


(***************************************************************************)
(* processSignal                                                           *)
(***************************************************************************)
\* the signal numbers the handler is called with: the ends of the real-time
\* range, the offsets the configurations use, and one number on each side of
\* the range
Signals == {SIGRTMIN - 1, SIGRTMIN + 1, SIGRTMIN + 5, SIGRTMAX}

\* the threads whose signalCondition_ is element ind
BoundTo(ind) == {w \in Threads : moduleThreads[w].signalCondition_ = ind}

\* dwmbar.cpp:103-109.  notify_one wakes one of the threads that wait on the
\* condition variable and is lost when none waits.  Element sigRTNUM and up
\* do not exist: notify_one on such an element may do nothing or fault.
processSignal(sig) ==
    /\ Running
    /\ IF (sig < SIGRTMIN) \/ (sig > SIGRTMAX)
       THEN UNCHANGED <<process, pc, sigInd, woken, delivered>>
       ELSE LET ind == sig - SIGRTMIN
            IN  /\ \A w \in BoundTo(ind) : delivered[w] < MaxSignals
                /\ sigInd' = ind
                /\ delivered' = [w \in Threads |->
                                    IF w \in BoundTo(ind) THEN delivered[w] + 1
                                    ELSE delivered[w]]
                /\ IF ind >= sigRTNUM
                   THEN /\ process' \in {"running", "fault_notify"}
                        /\ UNCHANGED <<pc, woken>>
                   ELSE IF Waiters(ind) = {}
                   THEN UNCHANGED <<process, pc, woken>>
                   ELSE /\ \E w \in Waiters(ind) :
                             /\ pc' = [pc EXCEPT ![w] = "call"]
                             /\ woken' = [woken EXCEPT ![w] = @ + 1]
                        /\ UNCHANGED process
    /\ UNCHANGED <<configVars, exitCode, mainVars, slotVars, moduleThreads, sleepLeft,
                   pending, fsInd, previousLoad, now, polls, slept, notified, polled>>

(***************************************************************************)
(* main(): the loop that prints the bar                                    *)
(***************************************************************************)
RECURSIVE JoinFrom_allDelimited(_, _, _)
\* JoinFrom with a loop that runs to end() and appends the delimiter to every
\* element
JoinFrom_allDelimited(moduleOutput, delimiter, i) ==
    IF i > Len(moduleOutput) THEN <<>>
    ELSE moduleOutput[i] \o delimiter \o JoinFrom_allDelimited(moduleOutput, delimiter, i + 1)

RECURSIVE JoinFrom(_, _, _)
\* the for loop of makeBarOutput from element i on, then += back()
JoinFrom(moduleOutput, delimiter, i) ==
    IF i >= Len(moduleOutput) THEN moduleOutput[Len(moduleOutput)]
    ELSE moduleOutput[i] \o delimiter \o JoinFrom(moduleOutput, delimiter, i + 1)

\* makeBarOutput with the barText.clear() of its first line left out
makeBarOutput_noClear(moduleOutput, delimiter, barText_) ==
    barText_ \o JoinFrom(moduleOutput, delimiter, 1)

\* dwmbar.cpp:71-77, for a vector with at least one element: the new value of
\* the string passed as barText, which is cleared first and then appended to
makeBarOutput(moduleOutput, delimiter, barText_) ==
    LET cleared == SubSeq(barText_, 1, 0)
    IN  cleared \o JoinFrom(moduleOutput, delimiter, 1)

\* what a read of a string gives while another thread is assigning to it
Torn == <<"<torn>">>

\* the threads that are in the middle of assigning to element i of a bar
Writers(bar, i) ==
    {w \in Threads : /\ pc[w] = "write"
                     /\ pending[w].write
                     /\ moduleThreads[w].bar = bar
                     /\ moduleThreads[w].outString_ = i}

\* main's read of element i: a read that races with an assignment may see
\* the old text, the new text or neither
ReadOf(outputs, bar, i) ==
    {outputs[i]} \cup UNION {{pending[w].text, Torn} : w \in Writers(bar, i)}

\* the vectors main may read
Reads(outputs, bar) ==
    LET n   == Len(outputs)
        all == UNION {ReadOf(outputs, bar, i) : i \in 1..n}
    IN  {f \in [1..n -> all] : \A i \in 1..n : f[i] \in ReadOf(outputs, bar, i)}

\* dwmbar.cpp:218-219: main locks mtx and waits on commonCond
WaitCommon ==
    /\ Running
    /\ mainPc = "lock"
    /\ mainPc' = "wait"
    /\ UNCHANGED <<configVars, process, exitCode, moduleID, barText, barTextBottom,
                   rootName, renderVars, slotVars, threadVars, now, sigInd,
                   historyVars, polled>>

\* dwmbar.cpp:220-226: main, woken, composes the bar text and unlocks
Compose ==
    /\ Running
    /\ mainPc = "make"
    /\ \E top \in Reads(topModuleOutputs, "top") :
      /\ readTop' = top
      /\ IF twoBars
         THEN \E bottom \in Reads(bottomModuleOutputs, "bottom") :
                /\ readBottom' = bottom
                /\ barTextBottom' = makeBarOutput(bottom, bottomDelimiter, barTextBottom)
                /\ barText' = <<" ">> \o makeBarOutput(top, topDelimiter, barText)
                                  \o <<" ">> \o botTopDelimiter \o barTextBottom'
         ELSE /\ barText' = makeBarOutput(top, topDelimiter, barText)
              /\ UNCHANGED <<barTextBottom, readBottom>>
    /\ mainPc' = "print"
    /\ UNCHANGED <<configVars, process, exitCode, moduleID, rootName, display, slotVars,
                   threadVars, now, sigInd, historyVars, polled>>

\* what XOpenDisplay(NULL) returns: a null pointer when no connection to the
\* X server can be made
XOpenDisplay == {"nullptr", "Display"}

\* printRoot that returns without XCloseDisplay
XCloseDisplay_leak(open) == open

\* XCloseDisplay: one connection fewer is open
XCloseDisplay(open) == open - 1

\* dwmbar.cpp:86-95 and 227: when XOpenDisplay fails printRoot returns at
\* once; else it stores the name of the root window and closes the connection
printRoot ==
    /\ Running
    /\ mainPc = "print"
    /\ \E d \in XOpenDisplay :
         IF d = "nullptr"
         THEN /\ display' = [display EXCEPT !.last = "failed"]
              /\ UNCHANGED rootName
         ELSE /\ rootName' = barText
              /\ display' = [open |-> XCloseDisplay(display.open + 1), last |-> "opened"]
    /\ mainPc' = "lock"
    /\ UNCHANGED <<configVars, process, exitCode, moduleID, barText, barTextBottom,
                   readTop, readBottom, slotVars, threadVars, now, sigInd, historyVars,
                   polled>>

(***************************************************************************)
(* The specifications.                                                     *)
(***************************************************************************)
\* the state when main() has installed processSignal (dwmbar.cpp:112-114) and
\* declared its variables (115-119), for the configuration c
InitWith(c) ==
    /\ topModuleList = c.top
    /\ bottomModuleList = c.bottom
    /\ twoBars = c.two
    /\ process = "running"
    /\ exitCode = -1
    /\ mainPc = "top"
    /\ moduleID = 0
    /\ topModuleOutputs = [i \in 1..Len(c.top) |-> <<>>]
    /\ bottomModuleOutputs = <<>>
    /\ moduleThreads = <<>>
    /\ pc = <<>>
    /\ sleepLeft = <<>>
    /\ pending = <<>>
    /\ fsInd = <<>>
    /\ previousLoad = <<>>
    /\ barText = <<>>
    /\ barTextBottom = <<>>
    /\ rootName = <<>>
    /\ now = 0
    /\ sigInd = -1
    /\ polls = <<>>
    /\ woken = <<>>
    /\ slept = <<>>
    /\ delivered = <<>>
    /\ notified = <<>>
    /\ polled = <<>>
    /\ readTop = <<>>
    /\ readBottom = <<>>
    /\ display = [open |-> 0, last |-> "none"]

\* configurations that start: a signal-driven and a timed module
RunConfigs ==
    { [top    |-> <<Desc("ModuleRAM", "internal", 0, 5)>>,
       bottom |-> <<Desc("ModuleDate", "internal", 2, 1)>>,
       two    |-> TRUE] }

Init == \E c \in RunConfigs : InitWith(c)

Next ==
    \/ StartTop
    \/ StartBottom
    \/ TopDone
    \/ BottomDone
    \/ WaitCommon
    \/ Compose
    \/ printRoot
    \/ Tick
    \/ \E sig \in Signals : processSignal(sig)
    \/ \E w \in Threads : Call(w)
    \/ \E w \in Threads : Gather(w)
    \/ \E w \in Threads : Publish(w)
    \/ \E w \in Threads : WakeUp(w)

Spec == Init /\ [][Next]_vars


(***************************************************************************)
(* Start-up over many configurations: main walks its lists and prints the  *)
(* bar while the threads it has started make their first poll.             *)
(***************************************************************************)
\* descriptors that main accepts
GoodDescs ==
    { Desc("ModuleDate", "internal", 60, 1),
      Desc("ModuleRAM", "internal", 0, 5),
      Desc("ModuleBattery", "internal", 5, 2),
      Desc("ModuleCPU", "internal", 2, 3),
      Desc("ModuleDisk", "internal", 10, 6),
      Desc("~/.scripts/checkMail", "external", 0, 8),
      Desc("ModuleFoo", "external", 10, 4),
      Desc("ModuleDate", "internal", 0, 30),
      Desc("ModuleRAM", "builtin", 2, 5) }

\* descriptors with something wrong
BadDescs ==
    { <<>>,
      <<"ModuleDate", "internal", to_string(60)>>,
      <<"ModuleDate", "internal", to_string(60), to_string(1), to_string(0)>>,
      <<"ModuleDate", "internal", <<"-", "5">>, to_string(1)>>,
      <<"~/.scripts/checkMail", "external", <<"-", "5">>, to_string(1)>>,
      <<"ModuleDate", "internal", to_string(60), <<"-", "1">>>>,
      <<"~/.scripts/checkMail", "external", to_string(60), <<"-", "1">>>>,
      <<"ModuleDate", "internal", <<"-", "5">>, <<"-", "1">>>>,
      <<"ModuleFoo", "internal", to_string(60), to_string(1)>>,
      <<"ModuleFoo", "internal", <<"-", "5">>, to_string(1)>>,
      <<"ModuleFoo", "internal", to_string(60), <<"-", "1">>>>,
      <<"ModuleFoo", "builtin", to_string(60), to_string(1)>>,
      <<"ModuleDate", "internal", <<"s", "o", "o", "n">>, to_string(1)>> }

\* descriptors that precede another one in a list
FirstDescs ==
    { Desc("ModuleDate", "internal", 60, 1),
      Desc("ModuleRAM", "internal", 0, 5) }

StartupConfigs ==
    [top    : {<<d>> : d \in GoodDescs \cup BadDescs}
                \cup {<<d, e>> : d \in FirstDescs, e \in GoodDescs \cup BadDescs},
     bottom : {<<d>> : d \in FirstDescs \cup BadDescs},
     two    : BOOLEAN]

InitStartup == \E c \in StartupConfigs : InitWith(c)

NextStartup ==
    \/ StartTop
    \/ StartBottom
    \/ TopDone
    \/ BottomDone
    \/ \E w \in Threads : Call(w)
    \/ \E w \in Threads : Gather(w)
    \/ \E w \in Threads : Publish(w)
    \/ \E w \in Threads : WaitOutOfRange(w)
    \/ WaitCommon
    \/ Compose
    \/ printRoot

SpecStartup == InitStartup /\ [][NextStartup]_vars

(***************************************************************************)
(* Properties of the scheduling loop, Module::operator().                  *)
(***************************************************************************)
\* the threads that refresh on a signal, and whose condition variable exists
SignalDriven ==
    {w \in Threads : /\ moduleThreads[w].refreshInterval_ = 0
                     /\ moduleThreads[w].signalCondition_ < sigRTNUM}

\* the threads that refresh on a timer
Timed == {w \in Threads : moduleThreads[w].refreshInterval_ > 0}

\* C1: a thread with refresh interval 0 calls runModule_ once when it starts
\* and then once for every time its signal condition variable wakes it, and
\* for no other reason: it never sleeps, and at every moment its calls (the
\* one it is about to make included) number one more than its wake-ups.
C1_ZeroIntervalPollsOnStartAndOnSignal ==
    \A w \in SignalDriven :
        /\ pc[w] # "sleep"
        /\ polls[w] + (IF pc[w] = "call" THEN 1 ELSE 0) = 1 + woken[w]

\* a signal-driven thread is waiting again after its second poll, the one a
\* signal asked for, and time has passed
C1_Witness ==
    \E w \in SignalDriven :
        pc[w] = "wait" /\ polls[w] = 2 /\ woken[w] = 1 /\ now >= 1

C3_SignalActivatesTimedModule ==
    [][\A w \in Timed :
         (pc[w] = "sleep" /\ sleepLeft[w] > 0 /\ delivered'[w] > delivered[w])
             => pc'[w] = "call"]_vars

\* C4 (as claimed): a signal-driven thread that has its offset to itself and
\* is waiting has polled once at its start and once for every signal handled
\* on its offset.
C4_OnePollPerSignal ==
    \A w \in SignalDriven :
        (pc[w] = "wait" /\ BoundTo(moduleThreads[w].signalCondition_) = {w})
            => polls[w] = 1 + delivered[w]

(***************************************************************************)
(* Properties of the shared output strings.                                *)
(***************************************************************************)
\* C5 (as claimed): main is never between locking and unlocking its mutex,
\* where it reads every output string, while a thread is assigning to one.
C5_NoReadDuringWrite ==
    ~(mainPc = "make" /\ \E w \in Threads : pc[w] = "write" /\ pending[w].write)

(***************************************************************************)
(* Properties of the signal handler.                                       *)
(***************************************************************************)
\* C9 (as claimed): the index processSignal computes for a signal of the
\* real-time range is an index of signalCondition.
C9_HandlerIndexInTable == sigInd < sigRTNUM

(***************************************************************************)
(* Properties of failed reads.                                             *)
(***************************************************************************)
\* C10 (as claimed): no poll ends the thread: whatever a module finds in its
\* data source, runModule_ returns.
C10_PollNeverTerminates == process # "terminate"


(***************************************************************************)
(* Properties of start-up.                                                 *)
(***************************************************************************)
\* the list main is walking, or walked last
CurrentList == IF mainPc = "top" THEN topModuleList ELSE bottomModuleList

\* the descriptors main has accepted so far
Accepted ==
    CASE mainPc = "top"    -> SubSeq(topModuleList, 1, moduleID)
      [] mainPc = "bottom" -> topModuleList \o SubSeq(bottomModuleList, 1, moduleID)
      [] OTHER             -> topModuleList \o (IF twoBars THEN bottomModuleList ELSE <<>>)

\* the exit code the configuration contract gives a descriptor, 0 for none
ContractCode(tb) ==
    IF Len(tb) # 4 THEN 1
    ELSE IF stoi(tb[3]).val < 0 THEN 2
    ELSE IF stoi(tb[4]).val < 0 THEN 3
    ELSE IF tb[2] = "internal" /\ tb[1] \notin InternalNames THEN 4
    ELSE 0

\* the descriptors the contract speaks about: any number of fields, and with
\* four fields a kind of the data model and decimal numbers
InContract(tb) ==
    Len(tb) = 4 => tb[2] \in {"internal", "external"} /\ stoi(tb[3]).ok /\ stoi(tb[4]).ok

\* main() has ended the process at the descriptor it was checking
EndedByMain == process \in {"exited", "terminate_main", "fault_main"}

\* C6 (as claimed): a descriptor with a defect ends the process by exit with
\* the code of its first defect (1 field count, 2 negative interval, 3
\* negative signal, 4 unknown internal name), and a descriptor without
\* defect is accepted, in the top list and in the bottom list.
C6_ExitCodeOfDefect ==
    /\ \A i \in 1..Len(Accepted) :
           InContract(Accepted[i]) => ContractCode(Accepted[i]) = 0
    /\ (EndedByMain /\ InContract(CurrentList[moduleID + 1]))
           => /\ process = "exited"
              /\ exitCode = ContractCode(CurrentList[moduleID + 1])
              /\ exitCode # 0

\* C7 (as claimed): when main exits with code 1, 2, 3 or 4 no thread has been
\* started and no output string has been written.
C7_NoPartialStartup ==
    (process = "exited" /\ exitCode \in 1..4)
        => /\ moduleThreads = <<>>
           /\ \A i \in 1..Len(topModuleOutputs) : topModuleOutputs[i] = <<>>
           /\ \A i \in 1..Len(bottomModuleOutputs) : bottomModuleOutputs[i] = <<>>

\* C8 (as claimed): a signal offset between 0 and 30 that main accepts gives
\* the thread an element of signalCondition.
C8_OffsetInTable ==
    \A w \in Threads :
        moduleThreads[w].signalCondition_ \in 0..30
            => moduleThreads[w].signalCondition_ \in 0..(sigRTNUM - 1)

(***************************************************************************)
(* One module at a time: the thread of a single module polls once a        *)
(* second while main, which has started it, has yet to wait for its first  *)
(* notification.                                                           *)
(***************************************************************************)
PollConfigs ==
    { [top    |-> <<d>>,
       bottom |-> <<Desc("ModuleDate", "internal", 60, 1)>>,
       two    |-> FALSE] :
        d \in {Desc("ModuleBattery", "internal", 1, 2),
               Desc("~/.scripts/checkMail", "external", 1, 8),
               Desc("dmesg", "external", 1, 9),
               Desc("ModuleCPU", "internal", 1, 3),
               Desc("ModuleRAM", "internal", 1, 5),
               Desc("~/.scripts/pacupdate", "external", 1, 9)} }

InitPoll == \E c \in PollConfigs : InitWith(c)

NextPoll ==
    \/ StartTop
    \/ TopDone
    \/ Tick
    \/ \E w \in Threads : Call(w)
    \/ \E w \in Threads : GatherReading(w)
    \/ \E w \in Threads : Publish(w)
    \/ \E w \in Threads : WakeUp(w)

SpecPoll == InitPoll /\ [][NextPoll]_vars

\* the output string of thread w
OutputOf(w) ==
    IF moduleThreads[w].bar = "top" THEN topModuleOutputs[moduleThreads[w].outString_]
    ELSE bottomModuleOutputs[moduleThreads[w].outString_]

\* thread w, a module of the given kind, ends the assignment of its
\* runModule_ in this step
Stores(w, kind) ==
    /\ moduleThreads[w].kind = kind
    /\ pc[w] = "write"
    /\ pc'[w] # "write"

\* the capacity text and the capacity of the Battery poll in progress
CapacityText(w) == FirstLine(polled[w].capacity)

CapacityOf(w) == IF CapacityText(w) = <<>> THEN 0 ELSE stoi(CapacityText(w)).val

(***************************************************************************)
(* Properties of the Battery poll.                                         *)
(***************************************************************************)
\* C11 (as claimed): a Battery poll that finds the status file or the
\* capacity file unreadable leaves the output string as it was.
C11_UnreadableKeepsSlot ==
    [][\A w \in Threads :
          (/\ Stores(w, "ModuleBattery")
           /\ (~polled[w].status.open \/ ~polled[w].capacity.open))
              => OutputOf(w)' = OutputOf(w)]_vars

\* the glyph the claim gives a charging battery
ChargingGlyphClaimed(cap) ==
    CASE cap < 5  -> "\\uf58d"
      [] cap < 20 -> "\\uf585"
      [] cap < 30 -> "\\uf586"
      [] cap < 40 -> "\\uf587"
      [] cap < 60 -> "\\uf588"
      [] cap < 80 -> "\\uf589"
      [] cap < 90 -> "\\uf58a"
      [] OTHER    -> "\\uf578"

\* C15 (as claimed): a Battery poll with status "Charging" overwrites the
\* output string with the capacity text, "% " and the glyph of the first
\* bucket among <5, <20, <30, <40, <60, <80, <90 and the rest, for every
\* capacity, 100 included.
C15_ChargingGlyph ==
    [][\A w \in Threads :
          (Stores(w, "ModuleBattery") /\ FirstLine(polled[w].status) = Charging)
              => OutputOf(w)' = CapacityText(w)
                                   \o <<"%", " ", ChargingGlyphClaimed(CapacityOf(w))>>]_vars

\* the limits of the buckets of a battery that is not charging, and their
\* glyphs
DischargingLimits == <<5, 10, 20, 30, 40, 50, 60, 70, 80, 90, 100>>

DischargingGlyphs == <<"\\uf58d", "\\uf579", "\\uf57a", "\\uf57b", "\\uf57c", "\\uf57d",
                       "\\uf57e", "\\uf57f", "\\uf580", "\\uf581", "\\uf578">>

\* the glyph the claim gives a battery that is not charging
NotChargingGlyphClaimed(status, cap) ==
    LET below == {i \in 1..Len(DischargingLimits) : cap < DischargingLimits[i]}
    IN  IF below # {}
        THEN DischargingGlyphs[CHOOSE i \in below : \A j \in below : i <= j]
        ELSE IF status = Discharging THEN "\\uf578" ELSE "\\uf583"

\* C16: a Battery poll with a status other than "Charging" overwrites the
\* output string with the capacity text, "% " and the glyph of the first
\* bucket among <5, <10, <20, ..., <90, <100; at 100 and above the glyph is
\* U+F578 for "Discharging" and U+F583 for every other status.
C16_NotChargingGlyph ==
    [][\A w \in Threads :
          (Stores(w, "ModuleBattery") /\ FirstLine(polled[w].status) # Charging)
              => OutputOf(w)' =
                    CapacityText(w)
                        \o <<"%", " ", NotChargingGlyphClaimed(FirstLine(polled[w].status),
                                                              CapacityOf(w))>>]_vars

\* a second or later poll has stored the text of a full battery that is
\* neither charging nor discharging
C16_Witness ==
    \E w \in Threads :
        /\ moduleThreads[w].kind = "ModuleBattery"
        /\ pc[w] = "sleep"
        /\ polls[w] >= 2
        /\ pending[w].text = to_string(100) \o <<"%", " ", "\\uf583">>
        /\ OutputOf(w) = pending[w].text

(***************************************************************************)
(* Properties of the external module.                                      *)
(***************************************************************************)
\* C20: the external module stores the output of its command cut to its
\* first 500 characters when it is longer, and as it is otherwise.
C20_ExternTruncates ==
    [][\A w \in Threads :
          Stores(w, "ModuleExtern")
              => OutputOf(w)' = IF Len(polled[w].out) > 500
                                THEN SubSeq(polled[w].out, 1, 500)
                                ELSE polled[w].out]_vars

\* the output string holds the first 500 characters of the 501 the command
\* printed
C20_Witness ==
    \E w \in Threads :
        /\ moduleThreads[w].kind = "ModuleExtern"
        /\ pc[w] = "sleep"
        /\ Len(OutputOf(w)) = 500
        /\ OutputOf(w) = SubSeq(TextOf(501, 2), 1, 500)

(***************************************************************************)
(* The bar of up to three top and three bottom modules.  The modules are   *)
(* external commands that refresh on a signal; the first state is the one  *)
(* in which every thread has made its first poll and waits for its signal, *)
(* and the notification of the last of them has just woken main.  The      *)
(* signal of the first top module makes it poll again.                     *)
(***************************************************************************)
\* the texts the first polls have stored
BarTexts == {ModuleExtern_run(o).text : o \in CommandOutputs("~/.scripts/checkMail")}

\* the output vectors of a bar of 1 to 3 modules
BarOutputs == UNION {[1..n -> BarTexts] : n \in 1..3}

\* the descriptors of n external modules; the first is bound to offset first
BarList(n, first) ==
    [i \in 1..n |-> Desc("~/.scripts/checkMail", "external", 0, IF i = 1 THEN first ELSE 8)]

\* the functors of the threads of a bar
BarThreads(list, bar) ==
    [i \in 1..Len(list) |->
        [kind |-> "ModuleExtern", refreshInterval_ |-> 0, bar |-> bar, outString_ |-> i,
         signalCondition_ |-> stoi(list[i][4]).val, command |-> list[i][1]]]

InitBar ==
    \E top \in BarOutputs, bottom \in BarOutputs, two \in BOOLEAN :
        /\ two \/ Len(bottom) = 1
        /\ topModuleList = BarList(Len(top), 1)
        /\ bottomModuleList = BarList(Len(bottom), 8)
        /\ twoBars = two
        /\ process = "running"
        /\ exitCode = -1
        /\ mainPc = "make"
        /\ moduleID = IF two THEN Len(bottom) ELSE Len(top)
        /\ topModuleOutputs = top
        /\ bottomModuleOutputs = IF two THEN bottom ELSE <<>>
        /\ moduleThreads = BarThreads(topModuleList, "top")
                               \o (IF two THEN BarThreads(bottomModuleList, "bottom") ELSE <<>>)
        /\ pc = [w \in Threads |-> "wait"]
        /\ sleepLeft = [w \in Threads |-> 0]
        /\ pending = [w \in Threads |-> Stored(OutputOf(w))]
        /\ fsInd = [w \in Threads |-> 0]
        /\ previousLoad = [w \in Threads |-> [idle |-> 0, total |-> 0]]
        /\ barText = <<>>
        /\ barTextBottom = <<>>
        /\ rootName = <<>>
        /\ now = 0
        /\ sigInd = -1
        /\ polls = [w \in Threads |-> 1]
        /\ woken = [w \in Threads |-> 0]
        /\ slept = [w \in Threads |-> 0]
        /\ delivered = [w \in Threads |-> 0]
        /\ notified = [w \in Threads |-> 1]
        /\ polled = [w \in Threads |-> NoData]
        /\ readTop = <<>>
        /\ readBottom = <<>>
        /\ display = [open |-> 0, last |-> "none"]

NextBar ==
    \/ WaitCommon
    \/ Compose
    \/ printRoot
    \/ \E sig \in Signals : processSignal(sig)
    \/ \E w \in Threads : Call(w)
    \/ \E w \in Threads : Gather(w)
    \/ \E w \in Threads : Publish(w)

SpecBar == InitBar /\ [][NextBar]_vars

(***************************************************************************)
(* Properties of the bar text.                                             *)
(***************************************************************************)
RECURSIVE LenSum(_, _)
\* the number of characters of the first i fragments
LenSum(frags, i) == IF i = 0 THEN 0 ELSE Len(frags[i]) + LenSum(frags, i - 1)

\* the number of characters that precede fragment i in a text that holds the
\* fragments in order with the delimiter between neighbours
StartOf(frags, delim, i) == LenSum(frags, i - 1) + (i - 1) * Len(delim)

\* text holds the fragments in order, the delimiter between each two
\* neighbours, and nothing else
IsJoin(text, frags, delim) ==
    LET n == Len(frags)
    IN  /\ Len(text) = LenSum(frags, n) + (n - 1) * Len(delim)
        /\ \A i \in 1..n :
               SubSeq(text, StartOf(frags, delim, i) + 1,
                      StartOf(frags, delim, i) + Len(frags[i])) = frags[i]
        /\ \A i \in 1..(n - 1) :
               SubSeq(text, StartOf(frags, delim, i) + Len(frags[i]) + 1,
                      StartOf(frags, delim, i + 1)) = delim

RECURSIVE JoinClaimed(_, _)
\* the fragments in order with the delimiter between neighbours
JoinClaimed(frags, delim) ==
    IF Len(frags) = 1 THEN frags[1]
    ELSE JoinClaimed(SubSeq(frags, 1, Len(frags) - 1), delim) \o delim \o frags[Len(frags)]

C19_RenderFailureAbsorbed ==
    /\ [](display.open = 0)
    /\ []((Running /\ mainPc = "print") => ENABLED printRoot)
    /\ [][(mainPc = "print" /\ mainPc' # "print" /\ display'.last = "failed")
             => (rootName' = rootName /\ process' = process /\ mainPc' = "lock")]_vars

\* printRoot is about to be called again, with a new text, after a call that
\* could not open the display and left the root window without a name
C19_Witness ==
    /\ mainPc = "print"
    /\ display.last = "failed"
    /\ rootName = <<>>
    /\ barText # <<>>
    /\ \E w \in Threads : polls[w] = 2

HungConfigs ==
    { [top    |-> <<Desc("~/.scripts/checkMail", "external", 2, 5)>>,
       bottom |-> <<Desc("ModuleDate", "internal", 1, 1)>>,
       two    |-> TRUE] }

InitHung == \E c \in HungConfigs : InitWith(c)

NextHung ==
    \/ StartTop
    \/ StartBottom
    \/ TopDone
    \/ BottomDone
    \/ WaitCommon
    \/ Compose
    \/ printRoot
    \/ Tick
    \/ \E w \in Threads : Call(w)
    \/ \E w \in Threads : Gather(w)
    \/ \E w \in Threads : Publish(w)
    \/ \E w \in Threads : WakeUp(w)

SpecHung == InitHung /\ [][NextHung]_vars

\* every thread but h, and main, can take the step it is at
OthersGoOn(h) ==
    /\ \A v \in Threads \ {h} :
           /\ pc[v] = "call" => ENABLED Call(v)
           /\ pc[v] = "poll" => ENABLED Gather(v)
           /\ pc[v] = "write" => ENABLED Publish(v)
           /\ (pc[v] = "sleep" /\ sleepLeft[v] = 0) => ENABLED WakeUp(v)
           /\ (pc[v] = "write" /\ mainPc = "wait") => ENABLED (Publish(v) /\ mainPc' = "make")
    /\ mainPc = "lock" => ENABLED WaitCommon
    /\ mainPc = "make" => ENABLED Compose
    /\ mainPc = "print" => ENABLED printRoot

\* C17: while the runModule_ of one thread has not returned, every other
\* thread can go on with its own loop, main is woken by their notifications
\* and can compose and print, and the output string of the thread that
\* hangs keeps its value.
C17_HungStepBlocksOnlyItself ==
    /\ [](\A h \in Threads : (Running /\ pc[h] = "poll") => OthersGoOn(h))
    /\ [][\A h \in Threads :
             (pc[h] = "poll" /\ pc'[h] = "poll") => OutputOf(h)' = OutputOf(h)]_vars

\* the external command is in its second run, its first output still in its
\* output string, while the timed module has polled twice and main, which
\* has printed, waits for the next notification
C17_Witness ==
    \E h \in Threads :
        /\ moduleThreads[h].kind = "ModuleExtern"
        /\ pc[h] = "poll"
        /\ polls[h] = 2
        /\ OutputOf(h) = <<"7">>
        /\ \E v \in Threads \ {h} : polls[v] = 2 /\ pc[v] = "sleep"
        /\ mainPc = "wait"
        /\ display.last = "opened"
        /\ readTop = <<OutputOf(h)>>

(***************************************************************************)
(* Properties of the running program.                                      *)
(***************************************************************************)
\* C18 (as claimed): once main has started the threads of a valid
\* configuration the process runs for ever: no thread leaves its loop and
\* main never leaves the loop that prints the bar.
C18_NothingTerminates ==
    mainPc \in {"lock", "wait", "make", "print"} => process = "running"

(***************************************************************************)
(* The disk module alone on a single bar, polling once a second, with main *)
(* printing the bar.                                                       *)
(***************************************************************************)
DiskConfigs ==
    { [top    |-> <<Desc("ModuleDisk", "internal", 1, 6)>>,
       bottom |-> <<Desc("ModuleDate", "internal", 60, 1)>>,
       two    |-> FALSE] }

InitDisk == \E c \in DiskConfigs : InitWith(c)

NextDisk ==
    \/ StartTop
    \/ TopDone
    \/ WaitCommon
    \/ Compose
    \/ printRoot
    \/ Tick
    \/ \E w \in Threads : Call(w)
    \/ \E w \in Threads : Gather(w)
    \/ \E w \in Threads : Publish(w)
    \/ \E w \in Threads : WakeUp(w)

SpecDisk == InitDisk /\ [][NextDisk]_vars

\* the threads of the disk module
DiskThreads == {w \in Threads : moduleThreads[w].kind = "ModuleDisk"}

(***************************************************************************)
(* Properties of the Disk poll.                                            *)
(***************************************************************************)
\* C21: a Disk poll stores its output string and notifies main once after
\* each file system: the k-th store leaves the entries of the file systems 1
\* to k, in order (the first store the first entry alone, every later store
\* the string as it was with the next entry appended), every store comes
\* with one notification, and a complete poll has notified as many times as
\* there are file systems.
C21_DiskPublishesPerFilesystem ==
    /\ [](\A w \in DiskThreads :
             notified[w] = IF pc[w] \in {"poll", "write"}
                           THEN Len(fsNames) * (polls[w] - 1) + fsInd[w]
                           ELSE Len(fsNames) * polls[w])
    /\ [][\A w \in DiskThreads :
             Stores(w, "ModuleDisk")
                 => /\ OutputOf(w)' = (IF fsInd[w] = 0 THEN <<>> ELSE OutputOf(w))
                                          \o DiskEntry(<<>>, fsInd[w], polled[w].statvfs)
                    /\ notified'[w] = notified[w] + 1]_vars

\* the disk module has finished a poll of two file systems, and the root
\* window still shows what main read after the first: the entry of the first
\* file system alone
C21_Witness ==
    \E w \in DiskThreads :
        /\ pc[w] = "sleep"
        /\ notified[w] = 2
        /\ display.last = "opened"
        /\ rootName # <<>>
        /\ rootName # OutputOf(w)
        /\ rootName = SubSeq(OutputOf(w), 1, Len(rootName))
        /\ rootName \in {DiskEntry(<<>>, 0, st) : st \in StatVfs}

(***************************************************************************)
(* Properties of the CPU poll.                                             *)
(***************************************************************************)
\* the threads of the CPU module
CpuThreads == {w \in Threads : moduleThreads[w].kind = "ModuleCPU"}

\* thread w comes back from reading its data in this step, the text it is
\* about to store in pending'[w], what it read in polled'[w]
Gathers(w) == pc[w] = "poll" /\ pc'[w] = "write"

\* the numbers of a line of /proc/stat, the label left out
NumbersOf(line) == Tail(Fields(line))

RECURSIVE SumOf(_)
SumOf(numbers) == IF numbers = <<>> THEN 0
                  ELSE stoi(Head(numbers)).val + SumOf(Tail(numbers))

\* idle and total as the claim defines them
IdleClaimed(line) == stoi(NumbersOf(line)[4]).val + stoi(NumbersOf(line)[5]).val

TotalClaimed(line) == SumOf(NumbersOf(line))

\* the load a CPU text shows: what stands between the glyph and the "%"
LoadShown(text) ==
    LET pct == CHOOSE i \in 1..Len(text) :
                   text[i] = "%" /\ \A j \in 1..(i - 1) : text[j] # "%"
    IN  SubSeq(text, 3, pct - 1)

\* the tenths a decimal text with one decimal stands for
TenthsOf(text) ==
    LET neg  == Head(text) = "-"
        u    == IF neg THEN Tail(text) ELSE text
        ip   == DigitPrefix(u)
        tens == DigitsValue(ip, 0) * 10 + DigitVal(u[Len(ip) + 2])
    IN  IF neg THEN 0 - tens ELSE tens

\* C22: the members previousIdleLoad_ and previousTotalLoad_ are 0 before the
\* first poll; a poll that reads the line of /proc/stat, with idle the sum of
\* its 4th and 5th numbers and total the sum of all its numbers, shows
\* (1 - (idle - previousIdle)/(total - previousTotal)) * 100 to the nearest
\* tenth (where the total has changed) and leaves idle and total in the two
\* members; the text it computed is the text it stores.
C22_CpuLoadFromDeltas ==
    /\ [](\A w \in CpuThreads :
             polls[w] = 0 => previousLoad[w] = [idle |-> 0, total |-> 0])
    /\ [][\A w \in CpuThreads :
             (Gathers(w) /\ FirstLine(polled'[w].stat) # <<>>)
                 => LET line == FirstLine(polled'[w].stat)
                        di   == IdleClaimed(line) - previousLoad[w].idle
                        dt   == TotalClaimed(line) - previousLoad[w].total
                        shown == TenthsOf(LoadShown(pending'[w].text))
                    IN  /\ previousLoad'[w] = [idle  |-> IdleClaimed(line),
                                               total |-> TotalClaimed(line)]
                        /\ dt # 0 => 2 * Abs(1000 * (dt - di) - shown * dt) <= Abs(dt)]_vars
    /\ [][\A w \in CpuThreads :
             Stores(w, "ModuleCPU") => OutputOf(w)' = pending[w].text]_vars

\* the second poll reads idle 150 of total 1200 after a first poll that read
\* idle 100 of total 1000, and is about to store a load of 75.0
C22_Witness ==
    \E w \in CpuThreads :
        /\ pc[w] = "write"
        /\ polls[w] = 2
        /\ FirstLine(polled[w].stat) # <<>>
        /\ IdleClaimed(FirstLine(polled[w].stat)) = 150
        /\ TotalClaimed(FirstLine(polled[w].stat)) = 1200
        /\ previousLoad[w] = [idle |-> 150, total |-> 1200]
        /\ LoadShown(OutputOf(w)) = <<"9", "0", ".", "0">>
        /\ LoadShown(pending[w].text) = <<"7", "5", ".", "0">>

(***************************************************************************)
(* Properties of the pacupdate script.                                     *)
(***************************************************************************)
\* the threads that run the script
PacThreads == {w \in Threads : moduleThreads[w].command = "~/.scripts/pacupdate"}

\* the number of lines of a listing that are not flagged as ignored
Upgradable(listing) ==
    Cardinality({i \in 1..Len(listing) :
                    \A j \in 1..Len(listing[i]) : listing[i][j] # "[ignored]"})

\* C23: the script writes the number of upgradable packages that are not
\* ignored, a space and the glyph U+F487 when the number is not zero, and
\* writes nothing when it is zero.
C23_ScriptOutput ==
    \A w \in PacThreads :
        pc[w] = "write"
            => LET n == Upgradable(polled[w].listing)
               IN  polled[w].out = IF n = 0 THEN <<>>
                                   ELSE to_string(n) \o <<" ", "\\uf487">>

\* the script has written nothing for a listing of ignored packages alone,
\* after a run that counted ten packages
C23_Witness ==
    \E w \in PacThreads :
        /\ pc[w] = "write"
        /\ polls[w] = 2
        /\ OutputOf(w) = <<"1", "0", " ", "\\uf487">>
        /\ Len(polled[w].listing) >= 1
        /\ Upgradable(polled[w].listing) = 0
        /\ polled[w].out = <<>>

(***************************************************************************)
(* Two modules that refresh on a signal only, bound to the same offset or  *)
(* to two offsets, under fair scheduling: main and every thread take the   *)
(* step they are at, sooner or later.  Signals come when the user sends    *)
(* them, or never.                                                         *)
(***************************************************************************)
LiveConfigs ==
    { [top    |-> <<Desc("~/.scripts/checkMail", "external", 0, sig)>>,
       bottom |-> <<Desc("ModuleDate", "internal", 0, 1)>>,
       two    |-> TRUE] : sig \in {1, 8} }

InitLive == \E c \in LiveConfigs : InitWith(c)

\* the steps of main
MainStep ==
    \/ StartTop
    \/ StartBottom
    \/ TopDone
    \/ BottomDone
    \/ WaitCommon
    \/ Compose
    \/ printRoot

\* the steps of thread w
ThreadStep(w) ==
    /\ w \in Threads
    /\ (Call(w) \/ Gather(w) \/ Publish(w))

NextLive ==
    \/ StartTop
    \/ StartBottom
    \/ TopDone
    \/ BottomDone
    \/ WaitCommon
    \/ Compose
    \/ printRoot
    \/ \E sig \in Signals : processSignal(sig)
    \/ \E w \in Threads : Call(w)
    \/ \E w \in Threads : Gather(w)
    \/ \E w \in Threads : Publish(w)

\* the threads the configurations of LiveConfigs start
LiveThreads == 1..2

SpecLive ==
    /\ InitLive
    /\ [][NextLive]_vars
    /\ WF_vars(MainStep)
    /\ \A w \in LiveThreads : WF_vars(ThreadStep(w))

\* thread w has stored a text and notified main, and is not storing another
HasPublished(w) ==
    /\ w \in Threads
    /\ notified[w] >= 1
    /\ pc[w] \notin {"poll", "write"}

\* what main read in the output string of thread w when it last composed
\* the bar
LastRead(w) ==
    LET read == IF moduleThreads[w].bar = "top" THEN readTop ELSE readBottom
    IN  IF moduleThreads[w].outString_ \in 1..Len(read)
        THEN read[moduleThreads[w].outString_] ELSE <<"<unread>">>

\* main has called printRoot with a bar that holds the text thread w stored
\* last
HasRendered(w) ==
    /\ w \in Threads
    /\ mainPc \in {"lock", "wait"}
    /\ LastRead(w) = OutputOf(w)

(***************************************************************************)
(* Properties of the notification of main.                                 *)
(***************************************************************************)
\* C24 (as claimed): when a thread has stored a text and notified main, main
\* sooner or later calls printRoot with a bar that holds that text or a
\* later one of the thread, wherever main was when it was notified and
\* whether or not another notification follows (unless the process ends).
C24_NoUpdateLost ==
    \A w \in LiveThreads : HasPublished(w) ~> (HasRendered(w) \/ ~Running)

\* C25 (as claimed): a runModule_ never notifies main without having
\* assigned its output string in the same call: every notification comes
\* with an assignment, for every module and whatever the poll has read.
C25_NotifyOnlyAfterWrite ==
    [][\A w \in Threads :
          notified'[w] > notified[w]
              => (pending[w].write /\ OutputOf(w)' = pending[w].text)]_vars

(***************************************************************************)
(* Properties of the delivery of a signal.                                 *)
(***************************************************************************)
\* the threads that refresh on the signal of offset ind
ZeroIntervalAt(ind) ==
    {w \in BoundTo(ind) : moduleThreads[w].refreshInterval_ = 0}

\* C26 (as claimed): the handler of a real-time signal of offset N makes no
\* thread bound to another offset poll or store, stores nothing and does
\* not notify main itself, and changes nothing at all when no module with
\* interval 0 is bound to offset N.
C26_SignalOnlyItsOffset ==
    [][\A sig \in SIGRTMIN..SIGRTMAX :
          processSignal(sig)
              => /\ \A w \in Threads \ BoundTo(sig - SIGRTMIN) :
                        pc'[w] = pc[w] /\ polls'[w] = polls[w] /\ woken'[w] = woken[w]
                 /\ UNCHANGED <<slotVars, notified, mainVars>>
                 /\ ZeroIntervalAt(sig - SIGRTMIN) = {}
                        => UNCHANGED <<configVars, process, exitCode, threadVars, now,
                                       polls, woken, slept, polled>>]_vars

\* C27 (as claimed): when all the modules with interval 0 that are bound to
\* the offset of a signal are waiting, the signal makes every one of them
\* poll.
C27_SignalWakesAllAtOffset ==
    [][\A sig \in SIGRTMIN..SIGRTMAX :
          (/\ processSignal(sig)
           /\ ZeroIntervalAt(sig - SIGRTMIN) # {}
           /\ \A w \in ZeroIntervalAt(sig - SIGRTMIN) : pc[w] = "wait")
              => \A w \in ZeroIntervalAt(sig - SIGRTMIN) :
                     pc'[w] = "call" /\ woken'[w] = woken[w] + 1]_vars

(***************************************************************************)
(* Properties of the binding of threads, output strings and descriptors.   *)
(***************************************************************************)
\* thread w was made for descriptor k of the list of a bar and writes output
\* string k of that bar
BuiltFrom(w, list, bar, k) ==
    /\ k \in 1..Len(list)
    /\ moduleThreads[w].bar = bar
    /\ moduleThreads[w].outString_ = k
    /\ moduleThreads[w].command = list[k][1]
    /\ moduleThreads[w].refreshInterval_ = stoi(list[k][3]).val
    /\ moduleThreads[w].signalCondition_ = stoi(list[k][4]).val

\* the value of an output string changes in this step only when thread w
\* ends the assignment of its runModule_, and becomes the text of w
WrittenOnlyBy(w, old, new) ==
    new # old => (pc[w] = "write" /\ pc'[w] # "write" /\ new = pending[w].text)

\* what main can find in an output string that thread w writes: its value,
\* and while w is assigning to it the new value or a mix of both
FragmentOf(w, slot) ==
    IF pc[w] = "write" /\ pending[w].write THEN {slot, pending[w].text, Torn}
    ELSE {slot}

\* C28: the threads are made in the order of the descriptors, the top list
\* first, one for each descriptor (all of them once main is in its loop, the
\* bottom list counting with two bars only); an output string is assigned
\* only by the thread made for the descriptor of the same position of the
\* same list; and the k-th fragment of a bar that main composes is what it
\* read in the output string of the k-th descriptor, the fragments joined in
\* the order of the list.
C28_OneWorkerPerDescriptor ==
    /\ [](/\ \A w \in Threads :
                IF w <= Len(topModuleList) THEN BuiltFrom(w, topModuleList, "top", w)
                ELSE twoBars /\ BuiltFrom(w, bottomModuleList, "bottom",
                                          w - Len(topModuleList))
          /\ mainPc \in {"lock", "wait", "make", "print"}
                => Len(moduleThreads) = Len(topModuleList)
                                          + (IF twoBars THEN Len(bottomModuleList) ELSE 0))
    /\ [][/\ \A k \in 1..Len(topModuleOutputs) :
                k \in Threads
                    => WrittenOnlyBy(k, topModuleOutputs[k], topModuleOutputs'[k])
          /\ \A k \in 1..Len(bottomModuleOutputs) :
                (Len(topModuleList) + k) \in Threads
                    => WrittenOnlyBy(Len(topModuleList) + k, bottomModuleOutputs[k],
                                     bottomModuleOutputs'[k])
          /\ \A k \in 1..Len(topModuleOutputs) :
                k \notin Threads => topModuleOutputs'[k] = topModuleOutputs[k]
          /\ \A k \in 1..Len(bottomModuleOutputs) :
                (Len(topModuleList) + k) \notin Threads
                    => bottomModuleOutputs'[k] = bottomModuleOutputs[k]]_vars
    /\ [][(mainPc = "make" /\ mainPc' = "print")
             => /\ Len(readTop') = Len(topModuleList)
                /\ \A k \in 1..Len(topModuleList) :
                       readTop'[k] \in FragmentOf(k, topModuleOutputs[k])
                /\ IF twoBars
                   THEN /\ Len(readBottom') = Len(bottomModuleList)
                        /\ \A k \in 1..Len(bottomModuleList) :
                               readBottom'[k] \in FragmentOf(Len(topModuleList) + k,
                                                             bottomModuleOutputs[k])
                        /\ barText' = <<" ">> \o JoinClaimed(readTop', topDelimiter)
                                          \o <<" ">> \o botTopDelimiter
                                          \o JoinClaimed(readBottom', bottomDelimiter)
                   ELSE barText' = JoinClaimed(readTop', topDelimiter)]_vars

\* main has composed two bars, two top fragments of two different modules
\* and one bottom fragment, each the text stored in its output string
C28_Witness ==
    /\ twoBars
    /\ mainPc = "print"
    /\ Len(moduleThreads) = 3
    /\ \A w \in Threads : pc[w] # "write" /\ notified[w] >= 1
    /\ readTop = topModuleOutputs
    /\ readBottom = bottomModuleOutputs
    /\ readTop[1] # <<>>
    /\ readTop[2] # <<>>
    /\ readTop[1] # readTop[2]
    /\ readBottom[1] # <<>>
    /\ readBottom[1] # readTop[1]
    /\ readBottom[1] # readTop[2]

\* the text of a CPU poll that could read neither file
CpuZeroText ==
    <<"\\ufb19", " ", "0", ".", "0", "%", " ", "\\ue20c", " ", "0", "\\u00b0", "C">>

\* C29: every CPU poll assigns the output string and notifies main once; a
\* poll that can read neither the temperature file nor /proc/stat stores
\* the text of temperature 0 and load 0.0 and leaves previousIdleLoad_ and
\* previousTotalLoad_ as they were, so that the next poll that reads the
\* line takes its differences against the last values read.
C29_CpuNeverSkips ==
    /\ [][\A w \in CpuThreads :
             (Gathers(w) /\ ~polled'[w].temp.open /\ ~polled'[w].stat.open)
                 => /\ pending'[w] = Stored(CpuZeroText)
                    /\ previousLoad'[w] = previousLoad[w]]_vars
    /\ [][\A w \in CpuThreads :
             pc[w] = "poll" => (pc'[w] \in {"poll", "write"} /\ process' = process)]_vars
    /\ [][\A w \in CpuThreads :
             (pc[w] = "write" /\ pc'[w] # "write")
                 => /\ pending[w].write
                    /\ OutputOf(w)' = pending[w].text
                    /\ notified'[w] = notified[w] + 1]_vars

\* the third poll reads idle 150 of total 1200 and is about to store a load
\* of 75.0: the first poll read idle 100 of total 1000 and the second, which
\* could read neither file, stored the text of temperature 0 and load 0.0
C29_Witness ==
    \E w \in CpuThreads :
        /\ pc[w] = "write"
        /\ polls[w] = 3
        /\ OutputOf(w) = CpuZeroText
        /\ FirstLine(polled[w].stat) # <<>>
        /\ TotalClaimed(FirstLine(polled[w].stat)) = 1200
        /\ LoadShown(pending[w].text) = <<"7", "5", ".", "0">>

(***************************************************************************)
(* Properties of the order of the start-up checks.                         *)
(***************************************************************************)
\* the codes of all the defects of a descriptor: 1 for a field count other
\* than four, and with four fields 2 for a negative interval, 3 for a
\* negative signal offset, 4 for an internal name that main does not know
DefectsOf(tb) ==
    IF Len(tb) # 4 THEN {1}
    ELSE (IF stoi(tb[3]).val < 0 THEN {2} ELSE {})
             \cup (IF stoi(tb[4]).val < 0 THEN {3} ELSE {})
             \cup (IF tb[2] = "internal" /\ tb[1] \notin InternalNames THEN {4} ELSE {})

\* C30: when main exits, the descriptor it was checking is the first one
\* with a defect in the order of the lists, the top list before the bottom
\* list, and the exit code is the lowest code among the defects of that
\* descriptor (field count before interval before signal offset before
\* internal name): 2 with a negative interval whatever the offset and the
\* name, 3 with a negative offset and an unknown name, never 4 for an
\* external descriptor.
C30_FirstFailingCheckDecides ==
    process = "exited"
        => LET tb == CurrentList[moduleID + 1]
           IN  /\ mainPc \in {"top", "bottom"}
               /\ mainPc = "bottom" => twoBars
               /\ \A i \in 1..Len(Accepted) :
                      InContract(Accepted[i]) => DefectsOf(Accepted[i]) = {}
               /\ InContract(tb)
                      => /\ exitCode \in DefectsOf(tb)
                         /\ \A c \in DefectsOf(tb) : exitCode <= c
               /\ (exitCode = 4 => tb[2] # "external")

\* main has accepted the top list and exits with 2 at a bottom descriptor
\* that has a negative interval and another defect
C30_Witness ==
    /\ process = "exited"
    /\ exitCode = 2
    /\ mainPc = "bottom"
    /\ Len(moduleThreads) = Len(topModuleList)
    /\ Cardinality(DefectsOf(bottomModuleList[1])) = 2

\* the number of entries of a Disk text: every entry ends with "Gi"
EntriesIn(text) ==
    Cardinality({i \in 1..(Len(text) - 1) : text[i] = "G" /\ text[i + 1] = "i"})

\* the entry of file system number k (from 1) whose statvfs failed
FailedEntry(k) ==
    (IF k = 1 THEN <<"\\uf015", " ">> ELSE <<" ", " ", "\\uf0a0", " ">>) \o <<"0", "G", "i">>

\* C31: when statvfs fails for a file system the Disk poll still appends an
\* entry for it, "0Gi" after the icon of its position, assigns the output
\* string, notifies main and goes on with the next file system if there is
\* one; after a poll the output string holds one entry for every file
\* system of fsNames.
C31_DiskFailedStatKeepsEntry ==
    /\ [](\A w \in DiskThreads :
             (pc[w] \in {"sleep", "call"} /\ polls[w] >= 1)
                 => EntriesIn(OutputOf(w)) = Len(fsNames))
    /\ [][\A w \in DiskThreads :
             (Stores(w, "ModuleDisk") /\ polled[w].statvfs.test # 0)
                 => /\ pending[w].write
                    /\ OutputOf(w)' = (IF fsInd[w] = 0 THEN <<>> ELSE OutputOf(w))
                                          \o FailedEntry(fsInd[w] + 1)
                    /\ notified'[w] = notified[w] + 1
                    /\ IF fsInd[w] + 1 < Len(fsNames)
                       THEN pc'[w] = "poll" /\ fsInd'[w] = fsInd[w] + 1
                       ELSE pc'[w] = "sleep"]_vars

\* a poll has ended in which statvfs failed for the first file system and
\* gave 2 GiB for the second
C31_Witness ==
    \E w \in DiskThreads :
        /\ pc[w] = "sleep"
        /\ OutputOf(w) = <<"\\uf015", " ", "0", "G", "i",
                           " ", " ", "\\uf0a0", " ", "2", "G", "i">>

\* where the "%" of a CPU text stands
PercentAt(text) ==
    CHOOSE i \in 1..Len(text) : text[i] = "%" /\ \A j \in 1..(i - 1) : text[j] # "%"

\* the temperature glyph and the temperature a CPU text shows
GlyphShown(text) == text[PercentAt(text) + 2]

TempShown(text) == SubSeq(text, PercentAt(text) + 4, Len(text) - 2)

\* the integer quotient of a reading by 1000, 0 for an unreadable file
DegreesClaimed(file) ==
    IF FirstLine(file) = <<>> THEN 0
    ELSE LET v == stoi(FirstLine(file)).val
         IN  CHOOSE q \in -200..200 :
                 IF v >= 0 THEN (v - 1000 * q) \in 0..999 ELSE (v - 1000 * q) \in -999..0

\* C32: the temperature a CPU poll shows is the integer quotient of the
\* reading by 1000, 0 when the file cannot be read, and the glyph is U+E20C
\* below 35, U+E20A from 35 to below 80, U+E20B from 80 on.
C32_CpuTemperature ==
    [][\A w \in CpuThreads :
          Gathers(w)
              => LET deg  == DegreesClaimed(polled'[w].temp)
                     text == pending'[w].text
                 IN  /\ TempShown(text) = to_string(deg)
                     /\ text[Len(text) - 1] = "\\u00b0"
                     /\ text[Len(text)] = "C"
                     /\ GlyphShown(text) = (IF deg < 35 THEN "\\ue20c"
                                            ELSE IF deg < 80 THEN "\\ue20a"
                                            ELSE "\\ue20b")]_vars

\* the second poll has read 35000 and is about to store 35 with U+E20A; the
\* first stored 0 with U+E20C for a reading of -500
C32_Witness ==
    \E w \in CpuThreads :
        /\ pc[w] = "write"
        /\ polls[w] = 2
        /\ TempShown(OutputOf(w)) = <<"0">>
        /\ GlyphShown(OutputOf(w)) = "\\ue20c"
        /\ FirstLine(polled[w].temp) = to_string(35000)
        /\ TempShown(pending[w].text) = <<"3", "5">>
        /\ GlyphShown(pending[w].text) = "\\ue20a"


\* the threads of the RAM module
RamThreads == {w \in Threads : moduleThreads[w].kind = "ModuleRAM"}

\* the numbers of the lines of a file whose first eight characters are
\* "MemFree:"
MemFreeAt(file) ==
    {i \in 1..Len(file.lines) :
        /\ Len(file.lines[i]) >= 8
        /\ SubSeq(file.lines[i], 1, 8) = MemFreeLabel}

\* the amount on the first of these lines: the digits after the label
KbClaimed(file) ==
    LET first == CHOOSE i \in MemFreeAt(file) : \A j \in MemFreeAt(file) : i <= j
        line  == file.lines[first]
    IN  DigitsValue(DigitPrefix(SkipSpace(SubSeq(line, 9, Len(line)))), 0)

\* the amount in a text of the RAM module: between the glyph with its space
\* and the unit
GiShown(text) == SubSeq(text, 3, Len(text) - 2)

\* C33: a poll of the RAM module that stores a text has read a file with a
\* line that starts with "MemFree:", and the text is the glyph, a space, the
\* amount of the first such line divided by 1048576 to the nearest tenth,
\* written with one decimal, and "Gi", whatever lines stand before and after.
C33_RamFirstMemFreeLine ==
    [][\A w \in RamThreads :
          Gathers(w)
              => LET file   == polled'[w].meminfo
                     text   == pending'[w].text
                     tenths == TenthsOf(GiShown(text))
                 IN  /\ MemFreeAt(file) # {}
                     /\ pending'[w].write
                     /\ text = <<RamGlyph, " ">> \o GiShown(text) \o <<"G", "i">>
                     /\ GiShown(text) = to_string(tenths \div 10) \o <<".">>
                                            \o to_string(tenths % 10)
                     /\ 2 * Abs(10 * KbClaimed(file) - tenths * 1048576) <= 1048576]_vars

\* the second poll found 3670016 kB on the first of two MemFree lines, the
\* other being the last line with 1048576 kB, and is about to store "3.5Gi";
\* the first poll stored "2.0Gi" for 2097152 kB
C33_Witness ==
    \E w \in RamThreads :
        /\ pc[w] = "write"
        /\ polls[w] = 2
        /\ OutputOf(w) = <<RamGlyph, " ", "2", ".", "0", "G", "i">>
        /\ MemFreeAt(polled[w].meminfo) = {2, 4}
        /\ polled[w].meminfo.lines[4] = MemFreeLine(1048576)
        /\ KbClaimed(polled[w].meminfo) = 3670016
        /\ pending[w].text = <<RamGlyph, " ", "3", ".", "5", "G", "i">>


\* a descriptor of four fields whose interval and signal offset are decimal
\* numbers that are not negative
PassesNumbers(tb) ==
    /\ Len(tb) = 4
    /\ stoi(tb[3]).ok /\ stoi(tb[3]).val >= 0
    /\ stoi(tb[4]).ok /\ stoi(tb[4]).val >= 0

\* main decides about the descriptor it is checking in this step: it starts
\* a thread or ends the process
Decides ==
    /\ mainPc \in {"top", "bottom"}
    /\ moduleID < Len(CurrentList)
    /\ \/ moduleThreads' # moduleThreads
       \/ process' \in {"exited", "terminate_main", "fault_main"}

\* C34: when main decides about a descriptor of four fields that passes the
\* checks of its numbers, any kind other than "external" (be it "internal"
\* or not) makes it start the built-in module named by the identifier when
\* that is one of the five names, and exit with code 4 when it is not; the
\* kind "external" makes it start the External-Command module on the
\* identifier, and nothing else does.
C34_OnlyExternalSelectsExtern ==
    [][LET tb == CurrentList[moduleID + 1]
           n  == Len(moduleThreads)
       IN  (Decides /\ PassesNumbers(tb))
               => IF tb[2] = "external"
                  THEN /\ process' = "running"
                       /\ Len(moduleThreads') = n + 1
                       /\ moduleThreads'[n + 1].kind = "ModuleExtern"
                       /\ moduleThreads'[n + 1].command = tb[1]
                  ELSE IF tb[1] \in InternalNames
                  THEN /\ process' = "running"
                       /\ Len(moduleThreads') = n + 1
                       /\ moduleThreads'[n + 1].kind = tb[1]
                  ELSE /\ process' = "exited"
                       /\ exitCode' = 4
                       /\ moduleThreads' = moduleThreads]_vars

\* main has started the RAM module for a descriptor of kind "builtin", the
\* second of the top list, and has exited with 4 at the bottom descriptor of
\* kind "builtin" with a name it does not know
C34_Witness ==
    /\ Len(topModuleList) = 2
    /\ topModuleList[2] = Desc("ModuleRAM", "builtin", 2, 5)
    /\ Len(moduleThreads) = 2
    /\ moduleThreads[2].kind = "ModuleRAM"
    /\ mainPc = "bottom"
    /\ bottomModuleList[1] = <<"ModuleFoo", "builtin", to_string(60), to_string(1)>>
    /\ process = "exited"
    /\ exitCode = 4

=============================================================================
